---- MODULE Spec2Model ----
(***************************************************************************)
(* Step generators (shuffle, accent and the sort drivers) and the playback *)
(* scheduler animateSort of the sorting visualizer.                        *)
(*                                                                         *)
(* JavaScript arrays are sequences; a JavaScript index i is position i+1   *)
(* of the sequence, and every index stored in a Step keeps its JavaScript  *)
(* (0-based) value.  A generator is modelled by the sequence of Steps it   *)
(* yields, the in-place contents of its array when it stops, and whether   *)
(* it returned.                                                            *)
(***************************************************************************)
EXTENDS Integers, Sequences, FiniteSets, TLC

(***************************************************************************)
(* Bounds of the model.                                                    *)
(***************************************************************************)
\* largest array length of the generator specification
MaxN == 4

\* longest array, and largest value, of the arrays with repeated values
MaxArrN == 4

MaxVal == 4
\* largest array length of the playback specification
MaxPlayN == 3

\* largest element count given to execute
MaxExecN == 3
\* scaled-down stand-in for the step cap, so that truncation happens
SmallCap == 3
\* number of steps pulled from a generator by the generator specification
GenLimit == 48

(***************************************************************************)
(* JavaScript values and array primitives.                                 *)
(***************************************************************************)
\* the value `undefined`, read from a position outside the array
Undef == -1

\* arr[i]
At(arr, i) == IF i >= 0 /\ i < Len(arr) THEN arr[i + 1] ELSE Undef

\* arr[i] = v; a write past the end extends the array, holes read undefined
Put(arr, i, v) ==
  IF i < Len(arr) THEN [arr EXCEPT ![i + 1] = v]
  ELSE [k \in 1..(i + 1) |-> IF k <= Len(arr) THEN arr[k]
                              ELSE IF k = i + 1 THEN v ELSE Undef]

\* [arr[i], arr[j]] = [arr[j], arr[i]]
Swap(arr, i, j) == Put(Put(arr, i, At(arr, j)), j, At(arr, i))

\* relational operators: any comparison with undefined is false
Gt(a, b) == a # Undef /\ b # Undef /\ a > b
Lt(a, b) == a # Undef /\ b # Undef /\ a < b
Ge(a, b) == a # Undef /\ b # Undef /\ a >= b
Le(a, b) == a # Undef /\ b # Undef /\ a <= b

\* arr.slice(a, b + 1) for in-range a..b
Slice(arr, a, b) == [k \in 1..(b - a + 1) |-> arr[a + k]]

(***************************************************************************)
(* Step records.  `has` is the set of fields the yielded object carries;   *)
(* a highlight field that is absent is stored as the empty list, an absent *)
(* counter as undefined.                                                   *)
(***************************************************************************)
AllFields == {"swappedIndexes", "compareIndexes", "comparisons", "swaps"}

\* { array, swappedIndexes, compareIndexes, comparisons, swaps }
Step(array, swp, cmp, c, s) ==
  [array |-> array, swappedIndexes |-> swp, compareIndexes |-> cmp,
   comparisons |-> c, swaps |-> s, has |-> AllFields]

\* { array, swappedIndexes, comparisons, swaps }
StepSwapOnly(array, swp, c, s) ==
  [array |-> array, swappedIndexes |-> swp, compareIndexes |-> <<>>,
   comparisons |-> c, swaps |-> s,
   has |-> {"swappedIndexes", "comparisons", "swaps"}]

\* { array, comparisons, swaps }
StepBare(array, c, s) ==
  [array |-> array, swappedIndexes |-> <<>>, compareIndexes |-> <<>>,
   comparisons |-> c, swaps |-> s, has |-> {"comparisons", "swaps"}]

\* state of one driver invocation: the array, the counters, the steps so far
Start(arr) == [arr |-> arr, comparisons |-> 0, swaps |-> 0, steps |-> <<>>]

Yield(st, rec) == [st EXCEPT !.steps = Append(@, rec)]

\* yield of a full step record, guarded by `if (yieldCompare)`
YieldIf(yc, st, swp, cmp) ==
  IF yc THEN Yield(st, Step(st.arr, swp, cmp, st.comparisons, st.swaps))
  ELSE st

\* result of running a generator: done = it returned; comparisons and swaps
\* are the counters the invocation ends with
Ran(st) ==
  [steps |-> st.steps, arr |-> st.arr, done |-> TRUE, diverges |-> FALSE,
   comparisons |-> st.comparisons, swaps |-> st.swaps]

(***************************************************************************)
(* shuffleGenerator: rnd[i] is the value of Math.floor(Math.random()*(i+1))*)
(* drawn at loop index i.                                                  *)
(***************************************************************************)
\* mutant: the two positions are reported but not exchanged
RECURSIVE shuffleLoop_noSwap(_, _, _)
shuffleLoop_noSwap(st, i, rnd) ==
  IF i > 0 THEN
    LET j == rnd[i]
        rec == [array |-> st.arr, swappedIndexes |-> <<>>, compareIndexes |-> <<i, j>>,
                comparisons |-> Undef, swaps |-> Undef, has |-> {"compareIndexes"}]
    IN shuffleLoop_noSwap(Yield(st, rec), i - 1, rnd)
  ELSE st

RECURSIVE shuffleLoop(_, _, _)
shuffleLoop(st, i, rnd) ==
  IF i > 0 THEN
    LET j == rnd[i]
        a == Swap(st.arr, i, j)
        rec == [array |-> a, swappedIndexes |-> <<>>, compareIndexes |-> <<i, j>>,
                comparisons |-> Undef, swaps |-> Undef, has |-> {"compareIndexes"}]
    IN shuffleLoop(Yield([st EXCEPT !.arr = a], rec), i - 1, rnd)
  ELSE st

shuffleGenerator(arr, rnd) == Ran(shuffleLoop(Start(arr), Len(arr) - 1, rnd))

(***************************************************************************)
(* accentGenerator                                                         *)
(***************************************************************************)
RECURSIVE accentLoop(_, _)
accentLoop(st, i) ==
  IF i < Len(st.arr) THEN
    accentLoop(Yield(st, [array |-> st.arr, swappedIndexes |-> <<i>>,
                           compareIndexes |-> <<>>, comparisons |-> Undef,
                           swaps |-> Undef, has |-> {"swappedIndexes"}]), i + 1)
  ELSE st

\* mutant: the closing step is left out
accentGenerator_noFinal(arr) == Ran(accentLoop(Start(arr), 0))

accentGenerator(arr) ==
  LET st == accentLoop(Start(arr), 0)
  IN Ran(Yield(st, [array |-> st.arr, swappedIndexes |-> <<>>,
                    compareIndexes |-> <<>>, comparisons |-> Undef,
                    swaps |-> Undef, has |-> {}]))

(***************************************************************************)
(* mergeSort                                                               *)
(***************************************************************************)
\* mutant: the larger element is taken first
RECURSIVE mergeLoop_desc(_, _, _, _, _, _, _)
mergeLoop_desc(st, i, j, merged, mid, right, yc) ==
  IF i <= mid /\ j <= right THEN
    LET s1 == [st EXCEPT !.comparisons = @ + 1]
        s2 == YieldIf(yc, s1, <<>>, <<i, j>>)
    IN IF Ge(At(s2.arr, i), At(s2.arr, j))
       THEN mergeLoop_desc(s2, i + 1, j, Append(merged, At(s2.arr, i)), mid, right, yc)
       ELSE mergeLoop_desc(s2, i, j + 1, Append(merged, At(s2.arr, j)), mid, right, yc)
  ELSE [st |-> st, i |-> i, j |-> j, merged |-> merged]

\* the while loop of merge: one comparison per element pair examined
RECURSIVE mergeLoop(_, _, _, _, _, _, _)
mergeLoop(st, i, j, merged, mid, right, yc) ==
  IF i <= mid /\ j <= right THEN
    LET s1 == [st EXCEPT !.comparisons = @ + 1]
        s2 == YieldIf(yc, s1, <<>>, <<i, j>>)
    IN IF Le(At(s2.arr, i), At(s2.arr, j))
       THEN mergeLoop(s2, i + 1, j, Append(merged, At(s2.arr, i)), mid, right, yc)
       ELSE mergeLoop(s2, i, j + 1, Append(merged, At(s2.arr, j)), mid, right, yc)
  ELSE [st |-> st, i |-> i, j |-> j, merged |-> merged]

\* mutant: every position of the merged range is reported
RECURSIVE ChangedIndexes_range(_, _, _, _)
ChangedIndexes_range(arr, initialArray, k, right) ==
  IF k > right THEN <<>>
  ELSE <<k>> \o ChangedIndexes_range(arr, initialArray, k + 1, right)

\* positions of left..right whose value differs from the pre-merge snapshot
RECURSIVE ChangedIndexes(_, _, _, _)
ChangedIndexes(arr, initialArray, k, right) ==
  IF k > right THEN <<>>
  ELSE (IF At(arr, k) # At(initialArray, k) THEN <<k>> ELSE <<>>)
       \o ChangedIndexes(arr, initialArray, k + 1, right)

merge(st, left, mid, right, yc) ==
  LET initialArray == st.arr
      w == mergeLoop(st, left, mid + 1, <<>>, mid, right, yc)
      merged == w.merged
                \o (IF w.i <= mid THEN Slice(st.arr, w.i, mid) ELSE <<>>)
                \o (IF w.j <= right THEN Slice(st.arr, w.j, right) ELSE <<>>)
      arr2 == [k \in 1..Len(st.arr) |->
                 IF k - 1 >= left /\ k - 1 <= right THEN merged[k - left]
                 ELSE st.arr[k]]
      swappedIndexes == ChangedIndexes(arr2, initialArray, left, right)
      s1 == [w.st EXCEPT !.arr = arr2]
  IN IF yc /\ Len(swappedIndexes) > 0
     THEN LET s2 == [s1 EXCEPT !.swaps = @ + Len(swappedIndexes)]
          IN Yield(s2, Step(s2.arr, swappedIndexes, <<>>, s2.comparisons, s2.swaps))
     ELSE s1

RECURSIVE mergeSortRecursive(_, _, _, _)
mergeSortRecursive(st, left, right, yc) ==
  IF left < right THEN
    LET mid == (left + right) \div 2
        s1 == mergeSortRecursive(st, left, mid, yc)
        s2 == mergeSortRecursive(s1, mid + 1, right, yc)
    IN merge(s2, left, mid, right, yc)
  ELSE st

mergeSort(arr, yc) == Ran(mergeSortRecursive(Start(arr), 0, Len(arr) - 1, yc))

(***************************************************************************)
(* selectionSort                                                           *)
(***************************************************************************)
RECURSIVE selectionInner(_, _, _, _, _, _)
selectionInner(st, i, j, minIndex, prev, yc) ==
  IF j < Len(st.arr) THEN
    LET s1 == [st EXCEPT !.comparisons = @ + 1]
        s2 == YieldIf(yc, s1, prev, <<i, j>>)
    IN selectionInner(s2, i, j + 1,
                      IF Lt(At(s2.arr, j), At(s2.arr, minIndex)) THEN j ELSE minIndex,
                      prev, yc)
  ELSE [st |-> st, minIndex |-> minIndex]

RECURSIVE selectionOuter(_, _, _, _)
selectionOuter(st, i, prev, yc) ==
  IF i < Len(st.arr) - 1 THEN
    LET w == selectionInner(st, i, i + 1, i, prev, yc)
    IN IF w.minIndex # i
       THEN LET s1 == [w.st EXCEPT !.arr = Swap(@, i, w.minIndex), !.swaps = @ + 1]
                p == <<i, w.minIndex>>
            IN selectionOuter(
                 Yield(s1, StepSwapOnly(s1.arr, p, s1.comparisons, s1.swaps)),
                 i + 1, p, yc)
       ELSE selectionOuter(w.st, i + 1, prev, yc)
  ELSE st

selectionSort(arr, yc) ==
  LET st == selectionOuter(Start(arr), 0, <<>>, yc)
  IN Ran(Yield(st, StepBare(st.arr, st.comparisons, st.swaps)))

(***************************************************************************)
(* insertionSort                                                           *)
(***************************************************************************)
RECURSIVE insertionShift(_, _, _, _, _)
insertionShift(st, j, key, prev, yc) ==
  IF j >= 0 /\ Gt(At(st.arr, j), key) THEN
    LET s1 == [st EXCEPT !.comparisons = @ + 1]
        s2 == YieldIf(yc, s1, prev, <<j, j + 1>>)
        s3 == [s2 EXCEPT !.arr = Put(@, j + 1, At(@, j)), !.swaps = @ + 1]
    IN insertionShift(s3, j - 1, key, <<j, j + 1>>, yc)
  ELSE [st |-> st, j |-> j, prev |-> prev]

RECURSIVE insertionOuter(_, _, _, _)
insertionOuter(st, i, prev, yc) ==
  IF i < Len(st.arr) THEN
    LET key == At(st.arr, i)
        w == insertionShift(st, i - 1, key, prev, yc)
        s1 == [w.st EXCEPT !.arr = Put(@, w.j + 1, key)]
    IN insertionOuter(
         Yield(s1, StepSwapOnly(s1.arr, w.prev, s1.comparisons, s1.swaps)),
         i + 1, w.prev, yc)
  ELSE st

insertionSort(arr, yc) ==
  LET st == insertionOuter(Start(arr), 1, <<>>, yc)
  IN Ran(Yield(st, StepBare(st.arr, st.comparisons, st.swaps)))

(***************************************************************************)
(* binaryInsertionSort                                                     *)
(***************************************************************************)
RECURSIVE binarySearch(_, _, _, _, _, _, _, _)
binarySearch(st, left, right, insertIndex, i, key, prev, yc) ==
  IF left <= right THEN
    LET s1 == [st EXCEPT !.comparisons = @ + 1]
        mid == (left + right) \div 2
        s2 == YieldIf(yc, s1, prev, <<mid, i>>)
    IN IF Gt(At(s2.arr, mid), key)
       THEN binarySearch(s2, left, mid - 1, mid, i, key, prev, yc)
       ELSE binarySearch(s2, mid + 1, right, insertIndex, i, key, prev, yc)
  ELSE [st |-> st, insertIndex |-> insertIndex]

\* mutant: the right-shifts are not counted
RECURSIVE binaryShift_uncounted(_, _, _, _)
binaryShift_uncounted(st, k, insertIndex, prev) ==
  IF k >= insertIndex THEN
    binaryShift_uncounted([st EXCEPT !.arr = Put(@, k + 1, At(@, k))],
                          k - 1, insertIndex, <<k, k + 1>>)
  ELSE [st |-> st, prev |-> prev]

RECURSIVE binaryShift(_, _, _, _)
binaryShift(st, k, insertIndex, prev) ==
  IF k >= insertIndex THEN
    binaryShift([st EXCEPT !.arr = Put(@, k + 1, At(@, k)), !.swaps = @ + 1],
                k - 1, insertIndex, <<k, k + 1>>)
  ELSE [st |-> st, prev |-> prev]

RECURSIVE binaryOuter(_, _, _, _)
binaryOuter(st, i, prev, yc) ==
  IF i < Len(st.arr) THEN
    LET key == At(st.arr, i)
        b == binarySearch(st, 0, i - 1, i, i, key, prev, yc)
        w == binaryShift(b.st, i - 1, b.insertIndex, prev)
        s1 == [w.st EXCEPT !.arr = Put(@, b.insertIndex, key)]
    IN binaryOuter(
         Yield(s1, StepSwapOnly(s1.arr, w.prev, s1.comparisons, s1.swaps)),
         i + 1, w.prev, yc)
  ELSE st

binaryInsertionSort(arr, yc) ==
  LET st == binaryOuter(Start(arr), 1, <<>>, yc)
  IN Ran(Yield(st, StepBare(st.arr, st.comparisons, st.swaps)))

(***************************************************************************)
(* quickSort                                                               *)
(***************************************************************************)
RECURSIVE partitionLoop(_, _, _, _, _, _)
partitionLoop(st, i, j, high, pivot, yc) ==
  IF j < high THEN
    LET s1 == [st EXCEPT !.comparisons = @ + 1]
        s2 == YieldIf(yc, s1, <<>>, <<j, high>>)
    IN IF Le(At(s2.arr, j), pivot)
       THEN LET s3 == [s2 EXCEPT !.arr = Swap(@, i + 1, j), !.swaps = @ + 1]
            IN partitionLoop(YieldIf(yc, s3, <<i + 1, j>>, <<>>),
                             i + 1, j + 1, high, pivot, yc)
       ELSE partitionLoop(s2, i, j + 1, high, pivot, yc)
  ELSE [st |-> st, i |-> i]

\* returns the state and pi, the final position of the pivot
partition(st, low, high, yc) ==
  LET w == partitionLoop(st, low - 1, low, high, At(st.arr, high), yc)
      s1 == [w.st EXCEPT !.arr = Swap(@, w.i + 1, high), !.swaps = @ + 1]
  IN [st |-> YieldIf(yc, s1, <<w.i + 1, high>>, <<>>), pi |-> w.i + 1]

\* mutant: the closing step is yielded only by invocations that partition
RECURSIVE quickSortRecursive_quietLeaves(_, _, _, _)
quickSortRecursive_quietLeaves(st, low, high, yc) ==
  IF low < high
  THEN LET p == partition(st, low, high, yc)
           s1 == quickSortRecursive_quietLeaves(p.st, low, p.pi - 1, yc)
           s2 == quickSortRecursive_quietLeaves(s1, p.pi + 1, high, yc)
       IN YieldIf(yc, s2, <<>>, <<>>)
  ELSE st

RECURSIVE quickSortRecursive(_, _, _, _)
quickSortRecursive(st, low, high, yc) ==
  LET s3 == IF low < high
            THEN LET p == partition(st, low, high, yc)
                     s1 == quickSortRecursive(p.st, low, p.pi - 1, yc)
                 IN quickSortRecursive(s1, p.pi + 1, high, yc)
            ELSE st
  IN YieldIf(yc, s3, <<>>, <<>>)

quickSort(arr, yc) == Ran(quickSortRecursive(Start(arr), 0, Len(arr) - 1, yc))

(***************************************************************************)
(* One comparison of positions a and b followed, when `exchange` holds of  *)
(* the two values, by their exchange: the loop body shared by bubble,      *)
(* cocktail-shaker, comb, odd-even and bitonic merge.  Returns the state   *)
(* and whether the exchange happened.                                      *)
(***************************************************************************)
\* mutant: the exchange step is yielded with the empty swappedIndexes of the
\* comparison step it was copied from
CompareExchange_noIndexes(st, a, b, cmp, exchange, yc) ==
  LET s1 == [st EXCEPT !.comparisons = @ + 1]
      s2 == YieldIf(yc, s1, <<>>, cmp)
  IN IF exchange
     THEN LET s3 == [s2 EXCEPT !.arr = Swap(@, a, b), !.swaps = @ + 1]
          IN [st |-> YieldIf(yc, s3, <<>>, <<>>), swapped |-> TRUE]
     ELSE [st |-> s2, swapped |-> FALSE]

\* mutant: the exchange starts the comparison counter over
CompareExchange_reset(st, a, b, cmp, exchange, yc) ==
  LET s1 == [st EXCEPT !.comparisons = @ + 1]
      s2 == YieldIf(yc, s1, <<>>, cmp)
  IN IF exchange
     THEN LET s3 == [s2 EXCEPT !.arr = Swap(@, a, b), !.swaps = @ + 1,
                               !.comparisons = 0]
          IN [st |-> YieldIf(yc, s3, cmp, <<>>), swapped |-> TRUE]
     ELSE [st |-> s2, swapped |-> FALSE]

CompareExchange(st, a, b, cmp, exchange, yc) ==
  LET s1 == [st EXCEPT !.comparisons = @ + 1]
      s2 == YieldIf(yc, s1, <<>>, cmp)
  IN IF exchange
     THEN LET s3 == [s2 EXCEPT !.arr = Swap(@, a, b), !.swaps = @ + 1]
          IN [st |-> YieldIf(yc, s3, <<a, b>>, <<>>), swapped |-> TRUE]
     ELSE [st |-> s2, swapped |-> FALSE]

(***************************************************************************)
(* bubbleSort                                                              *)
(***************************************************************************)
RECURSIVE bubbleInner(_, _, _, _, _)
bubbleInner(st, i, j, swapped, yc) ==
  IF j < Len(st.arr) - 1 - i THEN
    LET w == CompareExchange(st, j, j + 1, <<j, j + 1>>,
                             Gt(At(st.arr, j), At(st.arr, j + 1)), yc)
    IN bubbleInner(w.st, i, j + 1, swapped \/ w.swapped, yc)
  ELSE [st |-> st, swapped |-> swapped]

\* mutant: no `if (!swapped) break`
RECURSIVE bubbleOuter_noBreak(_, _, _)
bubbleOuter_noBreak(st, i, yc) ==
  IF i < Len(st.arr) - 1 THEN
    bubbleOuter_noBreak(bubbleInner(st, i, 0, FALSE, yc).st, i + 1, yc)
  ELSE st

RECURSIVE bubbleOuter(_, _, _)
bubbleOuter(st, i, yc) ==
  IF i < Len(st.arr) - 1 THEN
    LET w == bubbleInner(st, i, 0, FALSE, yc)
    IN IF ~w.swapped THEN w.st ELSE bubbleOuter(w.st, i + 1, yc)
  ELSE st

bubbleSort(arr, yc) == Ran(YieldIf(yc, bubbleOuter(Start(arr), 0, yc), <<>>, <<>>))

(***************************************************************************)
(* cocktailShakerSort                                                      *)
(***************************************************************************)
RECURSIVE cocktailForward(_, _, _, _, _)
cocktailForward(st, i, end, swapped, yc) ==
  IF i < end THEN
    LET w == CompareExchange(st, i, i + 1, <<i, i + 1>>,
                             Gt(At(st.arr, i), At(st.arr, i + 1)), yc)
    IN cocktailForward(w.st, i + 1, end, swapped \/ w.swapped, yc)
  ELSE [st |-> st, swapped |-> swapped]

RECURSIVE cocktailBackward(_, _, _, _, _)
cocktailBackward(st, i, start, swapped, yc) ==
  IF i > start THEN
    LET w == CompareExchange(st, i - 1, i, <<i - 1, i>>,
                             Gt(At(st.arr, i - 1), At(st.arr, i)), yc)
    IN cocktailBackward(w.st, i - 1, start, swapped \/ w.swapped, yc)
  ELSE [st |-> st, swapped |-> swapped]

RECURSIVE cocktailLoop(_, _, _, _)
cocktailLoop(st, start, end, yc) ==
  IF start < end THEN
    LET f == cocktailForward(st, start, end, FALSE, yc)
    IN IF ~f.swapped THEN f.st
       ELSE LET b == cocktailBackward(f.st, end - 1, start, FALSE, yc)
            IN IF ~b.swapped THEN b.st
               ELSE cocktailLoop(b.st, start + 1, end - 1, yc)
  ELSE st

cocktailShakerSort(arr, yc) ==
  Ran(YieldIf(yc, cocktailLoop(Start(arr), 0, Len(arr) - 1, yc), <<>>, <<>>))

(***************************************************************************)
(* gnomeSort.  The loop is deterministic in (arr, index): when that pair   *)
(* recurs at the loop head the loop never exits.  `seen` is the set of     *)
(* pairs met so far and `div` records a recurrence; a diverging run is     *)
(* unrolled until `limit` steps are yielded, or stopped at once when it    *)
(* yields nothing.                                                         *)
(***************************************************************************)
RECURSIVE gnomeLoop(_, _, _, _, _, _)
gnomeLoop(st, index0, seen, div, limit, yc) ==
  IF ~(index0 < Len(st.arr)) THEN
    [st |-> st, done |-> TRUE, diverges |-> FALSE]
  ELSE IF Len(st.steps) >= limit \/ ((div \/ <<st.arr, index0>> \in seen) /\ ~yc) THEN
    [st |-> st, done |-> FALSE,
     diverges |-> ~yc /\ (div \/ <<st.arr, index0>> \in seen)]
  ELSE
    LET index == IF index0 = 0 THEN 1 ELSE index0
        s1 == [st EXCEPT !.comparisons = @ + 1]
        s2 == YieldIf(yc, s1, <<>>, <<index - 1, index>>)
        seen2 == seen \cup {<<st.arr, index0>>}
        div2 == div \/ <<st.arr, index0>> \in seen
    IN IF Ge(At(s2.arr, index), At(s2.arr, index - 1))
       THEN gnomeLoop(s2, index + 1, seen2, div2, limit, yc)
       ELSE LET s3 == [s2 EXCEPT !.arr = Swap(@, index, index - 1), !.swaps = @ + 1]
            IN gnomeLoop(YieldIf(yc, s3, <<index - 1, index>>, <<>>),
                         index - 1, seen2, div2, limit, yc)

gnomeSort(arr, yc, limit) ==
  LET w == gnomeLoop(Start(arr), 0, {}, FALSE, limit, yc)
  IN IF w.done
     THEN Ran(YieldIf(yc, w.st, <<>>, <<>>))
     ELSE [steps |-> w.st.steps, arr |-> w.st.arr, done |-> FALSE,
           diverges |-> w.diverges,
           comparisons |-> w.st.comparisons, swaps |-> w.st.swaps]

(***************************************************************************)
(* combSort: Math.floor(gap / 1.3) is (10 * gap) div 13 on these gaps.     *)
(***************************************************************************)
RECURSIVE combPass(_, _, _, _, _)
combPass(st, i, gap, sorted, yc) ==
  IF i + gap < Len(st.arr) THEN
    LET w == CompareExchange(st, i, i + gap, <<i, i + gap>>,
                             Gt(At(st.arr, i), At(st.arr, i + gap)), yc)
    IN combPass(w.st, i + 1, gap, sorted /\ ~w.swapped, yc)
  ELSE [st |-> st, sorted |-> sorted]

RECURSIVE combLoop(_, _, _, _)
combLoop(st, gap0, sorted, yc) ==
  IF ~sorted THEN
    LET g == (10 * gap0) \div 13
        gap == IF g <= 1 THEN 1 ELSE g
        w == combPass(st, 0, gap, g <= 1, yc)
    IN combLoop(w.st, gap, w.sorted, yc)
  ELSE st

combSort(arr, yc) ==
  Ran(YieldIf(yc, combLoop(Start(arr), Len(arr), FALSE, yc), <<>>, <<>>))

(***************************************************************************)
(* shellSort                                                               *)
(***************************************************************************)
RECURSIVE shellShift(_, _, _, _, _)
shellShift(st, j, gap, temp, yc) ==
  IF j >= gap /\ Gt(At(st.arr, j - gap), temp) THEN
    LET s1 == [st EXCEPT !.comparisons = @ + 1]
        s2 == YieldIf(yc, s1, <<>>, <<j, j - gap>>)
        s3 == [s2 EXCEPT !.arr = Put(@, j, At(@, j - gap)), !.swaps = @ + 1]
    IN shellShift(YieldIf(yc, s3, <<j, j - gap>>, <<>>), j - gap, gap, temp, yc)
  ELSE [st |-> st, j |-> j]

RECURSIVE shellPass(_, _, _, _)
shellPass(st, i, gap, yc) ==
  IF i < Len(st.arr) THEN
    LET temp == At(st.arr, i)
        w == shellShift(st, i, gap, temp, yc)
        s1 == [w.st EXCEPT !.arr = Put(@, w.j, temp)]
    IN shellPass(IF w.j # i THEN YieldIf(yc, s1, <<w.j>>, <<>>) ELSE s1,
                 i + 1, gap, yc)
  ELSE st

RECURSIVE shellLoop(_, _, _)
shellLoop(st, gap, yc) ==
  IF gap > 0 THEN shellLoop(shellPass(st, gap, gap, yc), gap \div 2, yc)
  ELSE st

shellSort(arr, yc) ==
  Ran(YieldIf(yc, shellLoop(Start(arr), Len(arr) \div 2, yc), <<>>, <<>>))

(***************************************************************************)
(* heapSort                                                                *)
(***************************************************************************)
RECURSIVE heapify(_, _, _, _)
heapify(st, n, i, yc) ==
  LET left == 2 * i + 1
      right == 2 * i + 2
      l1 == IF left < n /\ Gt(At(st.arr, left), At(st.arr, i)) THEN left ELSE i
      largest == IF right < n /\ Gt(At(st.arr, right), At(st.arr, l1))
                 THEN right ELSE l1
  IN IF largest # i
     THEN LET s1 == [st EXCEPT !.comparisons = @ + 1]
              s2 == YieldIf(yc, s1, <<>>, <<i, largest>>)
              s3 == [s2 EXCEPT !.arr = Swap(@, i, largest), !.swaps = @ + 1]
          IN heapify(YieldIf(yc, s3, <<i, largest>>, <<>>), n, largest, yc)
     ELSE st

RECURSIVE heapBuild(_, _, _)
heapBuild(st, i, yc) ==
  IF i >= 0 THEN heapBuild(heapify(st, Len(st.arr), i, yc), i - 1, yc) ELSE st

RECURSIVE heapExtract(_, _, _)
heapExtract(st, i, yc) ==
  IF i > 0 THEN
    LET s1 == [st EXCEPT !.arr = Swap(@, 0, i), !.swaps = @ + 1]
        s2 == YieldIf(yc, s1, <<0, i>>, <<>>)
    IN heapExtract(heapify(s2, i, 0, yc), i - 1, yc)
  ELSE st

heapSort(arr, yc) ==
  LET s1 == heapBuild(Start(arr), (Len(arr) \div 2) - 1, yc)
      s2 == heapExtract(s1, Len(arr) - 1, yc)
  IN Ran(YieldIf(yc, s2, <<>>, <<>>))

(***************************************************************************)
(* oddEvenSort                                                             *)
(***************************************************************************)
RECURSIVE oddEvenPass(_, _, _, _)
oddEvenPass(st, i, sorted, yc) ==
  IF i < Len(st.arr) - 1 THEN
    LET w == CompareExchange(st, i, i + 1, <<i, i + 1>>,
                             Gt(At(st.arr, i), At(st.arr, i + 1)), yc)
    IN oddEvenPass(w.st, i + 2, sorted /\ ~w.swapped, yc)
  ELSE [st |-> st, sorted |-> sorted]

RECURSIVE oddEvenLoop(_, _, _)
oddEvenLoop(st, sorted, yc) ==
  IF ~sorted THEN
    LET o == oddEvenPass(st, 1, TRUE, yc)
        e == oddEvenPass(o.st, 0, o.sorted, yc)
    IN oddEvenLoop(e.st, e.sorted, yc)
  ELSE st

oddEvenSort(arr, yc) ==
  Ran(YieldIf(yc, oddEvenLoop(Start(arr), FALSE, yc), <<>>, <<>>))

(***************************************************************************)
(* bitonicSort(arr, up, yieldCompare)                                      *)
(***************************************************************************)
RECURSIVE bitonicMergeLoop(_, _, _, _, _, _)
bitonicMergeLoop(st, i, low, mid, up, yc) ==
  IF i < low + mid THEN
    LET w == CompareExchange(st, i, i + mid, <<i, i + mid>>,
                             Gt(At(st.arr, i), At(st.arr, i + mid)) = up, yc)
    IN bitonicMergeLoop(w.st, i + 1, low, mid, up, yc)
  ELSE st

RECURSIVE bitonicMerge(_, _, _, _, _)
bitonicMerge(st, low, cnt, up, yc) ==
  IF cnt <= 1 THEN st
  ELSE LET mid == cnt \div 2
           s1 == bitonicMergeLoop(st, low, low, mid, up, yc)
           s2 == bitonicMerge(s1, low, mid, up, yc)
       IN bitonicMerge(s2, low + mid, mid, up, yc)

RECURSIVE bitonicSortRec(_, _, _, _, _)
bitonicSortRec(st, low, cnt, up, yc) ==
  IF cnt <= 1 THEN st
  ELSE LET mid == cnt \div 2
           s1 == bitonicSortRec(st, low, mid, TRUE, yc)
           s2 == bitonicSortRec(s1, low + mid, mid, FALSE, yc)
       IN bitonicMerge(s2, low, cnt, up, yc)

bitonicSort(arr, up, yc) ==
  LET st == bitonicSortRec(Start(arr), 0, Len(arr), up, yc)
  IN Ran(IF yc THEN Yield(st, StepBare(st.arr, st.comparisons, st.swaps)) ELSE st)

(***************************************************************************)
(* cycleSort                                                               *)
(***************************************************************************)
\* for (i = cycleStart + 1; i < n; i++): count the elements smaller than item
RECURSIVE cycleCount(_, _, _, _, _)
cycleCount(st, i, item, pos, yc) ==
  IF i < Len(st.arr) THEN
    LET s1 == [st EXCEPT !.comparisons = @ + 1]
        pos2 == IF Lt(At(s1.arr, i), item) THEN pos + 1 ELSE pos
    IN cycleCount(YieldIf(yc, s1, <<>>, <<i>>), i + 1, item, pos2, yc)
  ELSE [st |-> st, pos |-> pos]

\* while (item === arr[pos]) pos++
RECURSIVE cycleSkip(_, _, _)
cycleSkip(arr, item, pos) ==
  IF item = At(arr, pos) THEN cycleSkip(arr, item, pos + 1) ELSE pos

\* [arr[pos], item] = [item, arr[pos]], counted and yielded
cyclePlace(st, item, pos, yc) ==
  LET s1 == [st EXCEPT !.arr = Put(@, pos, item), !.swaps = @ + 1]
  IN [st |-> YieldIf(yc, s1, <<pos>>, <<>>), item |-> At(st.arr, pos)]

\* while (pos !== cycleStart): rotate the rest of the cycle
RECURSIVE cycleRotate(_, _, _, _, _)
cycleRotate(st, cycleStart, item, pos0, yc) ==
  IF pos0 # cycleStart THEN
    LET c == cycleCount(st, cycleStart + 1, item, cycleStart, yc)
        pos == cycleSkip(c.st.arr, item, c.pos)
    IN IF item # At(c.st.arr, pos)
       THEN LET w == cyclePlace(c.st, item, pos, yc)
            IN cycleRotate(w.st, cycleStart, w.item, pos, yc)
       ELSE cycleRotate(c.st, cycleStart, item, pos, yc)
  ELSE st

RECURSIVE cycleOuter(_, _, _)
cycleOuter(st, cycleStart, yc) ==
  IF cycleStart < Len(st.arr) - 1 THEN
    LET item == At(st.arr, cycleStart)
        c == cycleCount(st, cycleStart + 1, item, cycleStart, yc)
    IN IF c.pos = cycleStart THEN cycleOuter(c.st, cycleStart + 1, yc)
       ELSE LET pos == cycleSkip(c.st.arr, item, c.pos)
                w == IF pos # cycleStart THEN cyclePlace(c.st, item, pos, yc)
                     ELSE [st |-> c.st, item |-> item]
            IN cycleOuter(cycleRotate(w.st, cycleStart, w.item, pos, yc),
                          cycleStart + 1, yc)
  ELSE st

\* mutant: the first cycle is left out
cycleSort_fromOne(arr, yc) ==
  LET st == cycleOuter(Start(arr), 1, yc)
  IN Ran(IF yc THEN Yield(st, StepBare(st.arr, st.comparisons, st.swaps)) ELSE st)

cycleSort(arr, yc) ==
  LET st == cycleOuter(Start(arr), 0, yc)
  IN Ran(IF yc THEN Yield(st, StepBare(st.arr, st.comparisons, st.swaps)) ELSE st)

(***************************************************************************)
(* lsdRadixSort                                                            *)
(***************************************************************************)
\* Math.max(...arr)
RECURSIVE MaxOf(_, _)
MaxOf(arr, k) ==
  IF k = Len(arr) THEN arr[k]
  ELSE LET m == MaxOf(arr, k + 1) IN IF arr[k] > m THEN arr[k] ELSE m

\* Math.floor(x / exp) % 10
Digit(x, exp) == (x \div exp) % 10

\* first loop: one step per digit extraction, always yielded
RECURSIVE radixCount(_, _, _, _)
radixCount(st, i, exp, count) ==
  IF i < Len(st.arr) THEN
    LET digit == Digit(At(st.arr, i), exp)
    IN radixCount(YieldIf(TRUE, st, <<>>, <<i>>), i + 1, exp,
                  [count EXCEPT ![digit] = @ + 1])
  ELSE [st |-> st, count |-> count]

\* second loop: one step per cumulative-count update, always yielded
RECURSIVE radixCumulate(_, _, _)
radixCumulate(st, i, count) ==
  IF i < 10 THEN
    radixCumulate(YieldIf(TRUE, st, <<>>, <<>>), i + 1,
                  [count EXCEPT ![i] = @ + count[i - 1]])
  ELSE [st |-> st, count |-> count]

\* third loop: one step per output placement, always yielded
RECURSIVE radixPlace(_, _, _, _, _)
radixPlace(st, i, exp, count, output) ==
  IF i >= 0 THEN
    LET digit == Digit(At(st.arr, i), exp)
        c2 == [count EXCEPT ![digit] = @ - 1]
    IN radixPlace(YieldIf(TRUE, st, <<>>, <<i>>), i - 1, exp, c2,
                  Put(output, c2[digit], At(st.arr, i)))
  ELSE [st |-> st, output |-> output]

\* mutant: the copy-back does not count as a swap
RECURSIVE radixCopyBack_uncounted(_, _, _, _)
radixCopyBack_uncounted(st, i, output, yc) ==
  IF i < Len(st.arr) THEN
    LET s1 == [st EXCEPT !.arr = Put(@, i, At(output, i))]
    IN radixCopyBack_uncounted(YieldIf(yc, s1, <<i>>, <<>>), i + 1, output, yc)
  ELSE st

\* fourth loop: copy-back, counted as a swap, yielded under yieldCompare
RECURSIVE radixCopyBack(_, _, _, _)
radixCopyBack(st, i, output, yc) ==
  IF i < Len(st.arr) THEN
    LET s1 == [st EXCEPT !.arr = Put(@, i, At(output, i)), !.swaps = @ + 1]
    IN radixCopyBack(YieldIf(yc, s1, <<i>>, <<>>), i + 1, output, yc)
  ELSE st

RECURSIVE radixLoop(_, _, _, _)
radixLoop(st, maxNum, exp, yc) ==
  IF maxNum \div exp > 0 THEN
    LET c == radixCount(st, 0, exp, [d \in 0..9 |-> 0])
        u == radixCumulate(c.st, 1, c.count)
        o == radixPlace(u.st, Len(st.arr) - 1, exp, u.count,
                        [k \in 1..Len(st.arr) |-> 0])
    IN radixLoop(radixCopyBack(o.st, 0, o.output, yc), maxNum, exp * 10, yc)
  ELSE st

lsdRadixSort(arr, yc) ==
  LET st == radixLoop(Start(arr), MaxOf(arr, 1), 1, yc)
  IN Ran(IF yc THEN Yield(st, StepBare(st.arr, st.comparisons, st.swaps)) ELSE st)

(***************************************************************************)
(* The generators, by name, and the call generator(finalArray,             *)
(* yieldCompare) of animateSort.  bitonicSort's second parameter is `up`,  *)
(* so the flag arrives there and its own yieldCompare takes its default.   *)
(***************************************************************************)
SortDrivers ==
  {"mergeSort", "selectionSort", "insertionSort", "binaryInsertionSort",
   "quickSort", "bubbleSort", "cocktailShakerSort", "gnomeSort", "combSort",
   "shellSort", "heapSort", "oddEvenSort", "bitonicSort", "cycleSort",
   "lsdRadixSort"}

Generators == SortDrivers \cup {"shuffleGenerator", "accentGenerator"}

Call(g, a, yc, rnd, limit) ==
  CASE g = "shuffleGenerator" -> shuffleGenerator(a, rnd)
    [] g = "accentGenerator" -> accentGenerator(a)
    [] g = "mergeSort" -> mergeSort(a, yc)
    [] g = "selectionSort" -> selectionSort(a, yc)
    [] g = "insertionSort" -> insertionSort(a, yc)
    [] g = "binaryInsertionSort" -> binaryInsertionSort(a, yc)
    [] g = "quickSort" -> quickSort(a, yc)
    [] g = "bubbleSort" -> bubbleSort(a, yc)
    [] g = "cocktailShakerSort" -> cocktailShakerSort(a, yc)
    [] g = "gnomeSort" -> gnomeSort(a, yc, limit)
    [] g = "combSort" -> combSort(a, yc)
    [] g = "shellSort" -> shellSort(a, yc)
    [] g = "heapSort" -> heapSort(a, yc)
    [] g = "oddEvenSort" -> oddEvenSort(a, yc)
    [] g = "bitonicSort" -> bitonicSort(a, yc, TRUE)
    [] g = "cycleSort" -> cycleSort(a, yc)
    [] g = "lsdRadixSort" -> lsdRadixSort(a, yc)

\* a generator on which next() is called `limit` times (limit >= 1): when it
\* yields that many steps it is left at its limit-th yield, where its array
\* and counters are those of that step and the code after that yield has
\* not run; when it yields fewer, it has returned
Pull(r, limit) ==
  IF limit >= 1 /\ Len(r.steps) >= limit
  THEN [steps |-> SubSeq(r.steps, 1, limit), arr |-> r.steps[limit].array,
        done |-> FALSE, diverges |-> r.diverges,
        comparisons |-> r.steps[limit].comparisons,
        swaps |-> r.steps[limit].swaps]
  ELSE r

(***************************************************************************)
(* Inputs.                                                                 *)
(***************************************************************************)
\* 0..n-1 in ascending order
Ascending(n) == [k \in 1..n |-> k - 1]

\* the permutations of 0..n-1
Perms(n) == {f \in [1..n -> 0..(n - 1)] : \A a, b \in 1..n : f[a] = f[b] => a = b}

\* the draws of Math.floor(Math.random() * (i + 1)) for i = n-1 down to 1
Draws(n) == {f \in [1..(n - 1) -> 0..(n - 1)] : \A k \in 1..(n - 1) : f[k] <= k}

\* the step cap of animateSort
MaxSteps == 80000

\* (interval, frameDuration) pairs: 0, 1, 2 and 4 steps per frame
Timings == {<<1, 0>>, <<3, 2>>, <<2, 3>>, <<10, 35>>}

Caps == {SmallCap, MaxSteps}

(***************************************************************************)
(* State.                                                                  *)
(***************************************************************************)
VARIABLES
  generator,           \* name of the generator function
  arr,                 \* the array the caller passes
  yieldCompare,        \* the flag the caller passes
  rnd,                 \* the values Math.random produces in this call
  interval,            \* animateSort parameter
  frameDuration,       \* animateSort parameter
  cap,                 \* step cap of the drain loop
  run,                 \* the generator object: steps it has yet to yield
  gpc,                 \* generator: "suspended", "done" (it returned),
                       \* "closed" (ended by return() at a yield) or
                       \* "diverged" (inside a next() that never returns)
  yielded,             \* steps obtained by iterating the generator directly
  pc,                  \* animateSort: "idle", "Draining", "Presenting",
                       \* "Sleeping", "Done" or "Threw"
  i,                   \* loop counter of the drain loop
  finalArray,          \* animateSort local
  colorAndSoundQueue,  \* animateSort local
  lastDraw,            \* arguments of the latest rearrangeImage call
  lastBeep,            \* arguments of the latest playBeep call
  frames,              \* per presented frame, the numbers of the steps folded
  draws,               \* number of rearrangeImage calls
  returned,            \* value animateSort resolved with
  phase,               \* execute: "none" outside execute, else "shuffle",
                       \* "pause", "sort", "accent", "rest", "finished" or
                       \* "rejected"
  algo,                \* execute: number of the algorithm of this iteration
  slowN,               \* execute: value of #slowN
  fastN,               \* execute: value of #fastN
  slowInterval,        \* execute: value of #slowInterval
  fastInterval,        \* execute: value of #fastInterval
  shuffledArray,       \* execute local
  sortedArray,         \* execute local
  calls,               \* the animateSort calls of this iteration, in order
  callerArr            \* contents of the array object the caller passed

vars == <<generator, arr, yieldCompare, rnd, interval, frameDuration, cap, run,
          gpc, yielded, pc, i, finalArray, colorAndSoundQueue, lastDraw,
          lastBeep, frames, draws, returned, phase, algo, slowN, fastN,
          slowInterval, fastInterval, shuffledArray, sortedArray, calls,
          callerArr>>

execVars == <<phase, algo, slowN, fastN, slowInterval, fastInterval,
              shuffledArray, sortedArray, calls>>

inputs == <<generator, arr, yieldCompare, rnd, interval, frameDuration, cap>>

playVars == <<pc, i, finalArray, colorAndSoundQueue, lastDraw, lastBeep,
              frames, draws, returned>>

None == <<"none">>

\* the inputs of one generator call
CallInputs(maxLen) ==
  /\ generator \in Generators
  /\ \E n \in 1..maxLen :
       /\ arr \in Perms(n)
       /\ rnd \in IF generator = "shuffleGenerator" THEN Draws(n) ELSE {<<>>}
  /\ yieldCompare \in BOOLEAN

\* execute is not running
ExecIdle ==
  /\ phase = "none"
  /\ algo = 0
  /\ slowN = 0
  /\ fastN = 0
  /\ slowInterval = 0
  /\ fastInterval = 0
  /\ shuffledArray = <<>>
  /\ sortedArray = <<>>
  /\ calls = <<>>

PlayIdle ==
  /\ i = 0
  /\ finalArray = <<>>
  /\ colorAndSoundQueue = <<>>
  /\ lastDraw = None
  /\ lastBeep = None
  /\ frames = <<>>
  /\ draws = 0
  /\ returned = None

(***************************************************************************)
(* Generator specification: a generator is created on a permutation and    *)
(* iterated until it returns.                                              *)
(***************************************************************************)
InitGen ==
  /\ CallInputs(MaxN)
  /\ interval = 1
  /\ frameDuration = 1
  /\ cap = MaxSteps
  /\ run = Call(generator, arr, yieldCompare, rnd, GenLimit)
  /\ gpc = "suspended"
  /\ yielded = <<>>
  /\ pc = "idle"
  /\ callerArr = arr
  /\ PlayIdle
  /\ ExecIdle

\* next() yields a step
GenYield ==
  /\ pc = "idle"
  /\ gpc = "suspended"
  /\ run.steps # <<>>
  /\ yielded' = Append(yielded, Head(run.steps))
  /\ run' = [run EXCEPT !.steps = Tail(@)]
  /\ UNCHANGED <<inputs, callerArr, execVars, gpc, playVars>>

\* next() reports that the generator is done
GenReturn ==
  /\ pc = "idle"
  /\ gpc = "suspended"
  /\ run.steps = <<>>
  /\ run.done
  /\ gpc' = "done"
  /\ UNCHANGED <<inputs, callerArr, execVars, run, yielded, playVars>>

\* the generator's loop has come back to a state it was in before without
\* reaching a yield: this next() never returns.  (A loop that yields in
\* every iteration gives an endless sequence of steps instead; the model
\* follows it for GenLimit steps and no further.)
GenDiverge ==
  /\ pc = "idle"
  /\ gpc = "suspended"
  /\ run.steps = <<>>
  /\ ~run.done
  /\ run.diverges
  /\ gpc' = "diverged"
  /\ UNCHANGED <<inputs, callerArr, execVars, run, yielded, playVars>>

NextGen == GenYield \/ GenReturn \/ GenDiverge

SpecGen == InitGen /\ [][NextGen]_vars

(***************************************************************************)
(* Generator specification on arrays of numbers with repeated values: the  *)
(* drivers that are called on them are iterated until they return.         *)
(***************************************************************************)
Arrays(maxLen) == UNION {[1..n -> 0..MaxVal] : n \in 1..maxLen}

ArrDrivers ==
  {"cycleSort", "mergeSort", "accentGenerator", "lsdRadixSort",
   "insertionSort", "binaryInsertionSort"}

\* arrays with larger values: three keys, and keys of two decimal digits
ExampleArrays == {<<5, 1, 9>>, <<12, 3, 10>>}

InitArr ==
  /\ generator \in ArrDrivers
  /\ arr \in Arrays(MaxArrN) \cup ExampleArrays
  /\ rnd = <<>>
  /\ yieldCompare \in BOOLEAN
  /\ interval = 1
  /\ frameDuration = 1
  /\ cap = MaxSteps
  /\ run = Call(generator, arr, yieldCompare, rnd, GenLimit)
  /\ gpc = "suspended"
  /\ yielded = <<>>
  /\ pc = "idle"
  /\ callerArr = arr
  /\ PlayIdle
  /\ ExecIdle

NextArr == GenYield \/ GenReturn

SpecArr == InitArr /\ [][NextArr]_vars

(***************************************************************************)
(* animateSort                                                             *)
(***************************************************************************)
\* Math.ceil(frameDuration / interval) on integers, interval > 0
numStepsPerFrame == (frameDuration + interval - 1) \div interval

\* Math.max(frameDuration, interval)
MaxOfTwo(a, b) == IF a > b THEN a ELSE b

\* mutant: the tone prefers the swapped indexes of a step
QueueEntry_swapFirst(result, seq) ==
  [array |-> result.array,
   colored |-> << [indexes |-> result.compareIndexes, color |-> "rgba(255, 0, 0, 0.5)"],
                  [indexes |-> result.swappedIndexes, color |-> "rgba(0, 255, 0, 0.5)"] >>,
   soundIndexes |-> IF Len(result.swappedIndexes) = 0
                    THEN result.compareIndexes ELSE result.swappedIndexes,
   seq |-> seq]

\* the queue entry built from a yielded step; seq is its number
QueueEntry(result, seq) ==
  [array |-> result.array,
   colored |-> << [indexes |-> result.compareIndexes, color |-> "rgba(255, 0, 0, 0.5)"],
                  [indexes |-> result.swappedIndexes, color |-> "rgba(0, 255, 0, 0.5)"] >>,
   soundIndexes |-> IF Len(result.compareIndexes) = 0
                    THEN result.swappedIndexes ELSE result.compareIndexes,
   seq |-> seq]

\* Array.from(new Set(seq)): first occurrences, in order
RECURSIVE Dedup(_)
Dedup(seq) ==
  IF seq = <<>> THEN <<>>
  ELSE LET front == Dedup(SubSeq(seq, 1, Len(seq) - 1))
           x == seq[Len(seq)]
       IN IF \E k \in 1..Len(front) : front[k] = x THEN front ELSE Append(front, x)

\* combinedColored.push(...colored) over the entries of one frame
RECURSIVE CombineColored(_)
CombineColored(entries) ==
  IF entries = <<>> THEN <<>>
  ELSE entries[1].colored \o CombineColored(Tail(entries))

\* mutant: the inner loop has no bound on the steps of one frame
FrameSize_all == Len(colorAndSoundQueue)

\* number of entries the inner for loop shifts off the queue for one frame
FrameSize == IF numStepsPerFrame < Len(colorAndSoundQueue)
             THEN (IF numStepsPerFrame < 0 THEN 0 ELSE numStepsPerFrame)
             ELSE Len(colorAndSoundQueue)

\* the entries shifted off the head of the queue, and what stays queued
Shifted(q, k) == SubSeq(q, 1, k)

\* mutant: one entry too many is dropped from the queue
Remaining_skip(q, k) == SubSeq(q, k + 2, Len(q))

Remaining(q, k) == SubSeq(q, k + 1, Len(q))

\* mutant: the loop breaks one step late
OverCap_late == i + 1 > cap + 1

\* if (i > 80000) break, evaluated after i++
OverCap == i + 1 > cap

Init ==
  /\ CallInputs(MaxPlayN)
  /\ \E t \in Timings : interval = t[1] /\ frameDuration = t[2]
  /\ cap \in Caps
  /\ LET limit == IF cap + 1 < GenLimit THEN cap + 1 ELSE GenLimit
         r == Call(generator, arr, yieldCompare, rnd, limit)
     IN /\ ~(cap + 1 > GenLimit /\ ~r.done /\ r.steps # <<>>)
        /\ run = Pull(r, cap + 1)
  /\ gpc = "suspended"
  /\ yielded = <<>>
  /\ pc = "Draining"
  /\ i = 0
  /\ finalArray = arr
  /\ callerArr = arr
  /\ colorAndSoundQueue = <<>>
  /\ lastDraw = None
  /\ lastBeep = None
  /\ frames = <<>>
  /\ draws = 0
  /\ returned = None
  /\ ExecIdle

\* the array objects of one animateSort call: "caller", the one the caller
\* passed, and "private", the one animateSort creates
\* mutant: finalArray is the caller's array itself
SpreadCopy_alias(object) == object

\* let finalArray = [...arr]: the spread creates a new array object
SpreadCopy(object) == "private"

\* generator(finalArray, yieldCompare): the object the generator sorts in place
GeneratorTarget == SpreadCopy("caller")

\* mutant: the for-of loop is left after its first iteration
DrainStep_early ==
  /\ pc = "Draining"
  /\ run.steps # <<>>
  /\ i' = i + 1
  /\ run' = [run EXCEPT !.steps = Tail(@)]
  /\ callerArr' = IF GeneratorTarget = "caller"
                  THEN Head(run.steps).array ELSE callerArr
  /\ IF OverCap
     THEN UNCHANGED <<colorAndSoundQueue, finalArray>>
     ELSE /\ colorAndSoundQueue' =
               Append(colorAndSoundQueue, QueueEntry(Head(run.steps), i + 1))
          /\ finalArray' = Head(run.steps).array
  /\ pc' = "Presenting"
  /\ gpc' = "closed"
  /\ UNCHANGED <<inputs, execVars, yielded, lastDraw, lastBeep, frames, draws, returned>>

\* one iteration of the for-of loop over the generator; leaving the loop by
\* break calls the iterator's return(), which closes the generator
DrainStep ==
  /\ pc = "Draining"
  /\ run.steps # <<>>
  /\ i' = i + 1
  /\ run' = [run EXCEPT !.steps = Tail(@)]
  /\ callerArr' = IF GeneratorTarget = "caller"
                  THEN Head(run.steps).array ELSE callerArr
  /\ IF OverCap
     THEN /\ pc' = "Presenting"
          /\ gpc' = "closed"
          /\ UNCHANGED <<colorAndSoundQueue, finalArray>>
     ELSE /\ colorAndSoundQueue' =
               Append(colorAndSoundQueue, QueueEntry(Head(run.steps), i + 1))
          /\ finalArray' = Head(run.steps).array
          /\ pc' = "Draining"
          /\ UNCHANGED gpc
  /\ UNCHANGED <<inputs, execVars, yielded, lastDraw, lastBeep, frames, draws, returned>>

\* the generator returns and the for-of loop ends; until its first
\* reassignment finalArray is the array the generator sorted in place
DrainEnd ==
  /\ pc = "Draining"
  /\ run.steps = <<>>
  /\ run.done
  /\ gpc' = "done"
  /\ finalArray' = IF i = 0 THEN run.arr ELSE finalArray
  /\ pc' = "Presenting"
  /\ callerArr' = IF GeneratorTarget = "caller" THEN run.arr ELSE callerArr
  /\ UNCHANGED <<inputs, execVars, run, yielded, i, colorAndSoundQueue, lastDraw,
                 lastBeep, frames, draws, returned>>

\* rearrangeImage draws segments[order[i]] for every position i: the call
\* completes when every order[i] is the index of one of the order.length
\* segments, and context.drawImage throws on segments[order[i]] otherwise
Drawable(order) ==
  \A k \in 1..Len(order) : order[k] >= 0 /\ order[k] < Len(order)

\* mutant: the frame is drawn with the array of its first step
PresentFrame_first ==
  /\ pc = "Presenting"
  /\ Len(colorAndSoundQueue) > 0
  /\ FrameSize > 0
  /\ LET taken == Shifted(colorAndSoundQueue, FrameSize)
     IN /\ Drawable(taken[FrameSize].array)
        /\ colorAndSoundQueue' = Remaining(colorAndSoundQueue, FrameSize)
        /\ lastDraw' = [order |-> taken[1].array,
                        colored |-> CombineColored(taken)]
        /\ lastBeep' = [duration |-> MaxOfTwo(frameDuration, interval),
                        n |-> Len(arr),
                        indexes |-> Dedup(taken[1].soundIndexes),
                        type |-> "square"]
        /\ frames' = Append(frames, [k \in 1..FrameSize |-> taken[k].seq])
  /\ draws' = draws + 1
  /\ pc' = "Sleeping"
  /\ UNCHANGED <<inputs, callerArr, execVars, run, gpc, yielded, i, finalArray, returned>>

\* one iteration of the while loop up to its await: build a frame, draw
\* it, play its tone
PresentFrame ==
  /\ pc = "Presenting"
  /\ Len(colorAndSoundQueue) > 0
  /\ FrameSize > 0
  /\ LET taken == Shifted(colorAndSoundQueue, FrameSize)
     IN /\ Drawable(taken[FrameSize].array)
        /\ colorAndSoundQueue' = Remaining(colorAndSoundQueue, FrameSize)
        /\ lastDraw' = [order |-> taken[FrameSize].array,
                        colored |-> CombineColored(taken)]
        /\ lastBeep' = [duration |-> MaxOfTwo(frameDuration, interval),
                        n |-> Len(arr),
                        indexes |-> Dedup(taken[1].soundIndexes),
                        type |-> "square"]
        /\ frames' = Append(frames, [k \in 1..FrameSize |-> taken[k].seq])
  /\ draws' = draws + 1
  /\ pc' = "Sleeping"
  /\ UNCHANGED <<inputs, callerArr, execVars, run, gpc, yielded, i, finalArray, returned>>

\* the rearrangeImage call of a frame throws, so animateSort rejects with
\* no tone and no sleep for that frame.  Either the inner loop shifted
\* nothing and combinedArray is undefined (the call redraws the unsliced
\* image and throws on order.length), or the array of the frame holds a
\* value that is no segment index (it throws in context.drawImage)
PresentThrow ==
  /\ pc = "Presenting"
  /\ Len(colorAndSoundQueue) > 0
  /\ LET taken == Shifted(colorAndSoundQueue, FrameSize)
     IN /\ IF FrameSize = 0 THEN TRUE ELSE ~Drawable(taken[FrameSize].array)
        /\ colorAndSoundQueue' = Remaining(colorAndSoundQueue, FrameSize)
        /\ lastDraw' = [order |-> IF FrameSize = 0 THEN Undef
                                  ELSE taken[FrameSize].array,
                        colored |-> CombineColored(taken)]
  /\ draws' = draws + 1
  /\ pc' = "Threw"
  /\ UNCHANGED <<inputs, callerArr, execVars, run, gpc, yielded, i, finalArray,
                 lastBeep, frames, returned>>

\* the timer of asleep(Math.max(frameDuration, interval)) fires
Wake ==
  /\ pc = "Sleeping"
  /\ pc' = "Presenting"
  /\ UNCHANGED <<inputs, callerArr, execVars, run, gpc, yielded, i, finalArray, colorAndSoundQueue,
                 lastDraw, lastBeep, frames, draws, returned>>

\* the queue is empty: the final rearrangeImage call and the return; when
\* that call throws, animateSort rejects
Settle ==
  /\ pc = "Presenting"
  /\ Len(colorAndSoundQueue) = 0
  /\ lastDraw' = [order |-> finalArray, colored |-> <<>>]
  /\ draws' = draws + 1
  /\ IF Drawable(finalArray)
     THEN returned' = finalArray /\ pc' = "Done"
     ELSE UNCHANGED returned /\ pc' = "Threw"
  /\ UNCHANGED <<inputs, callerArr, execVars, run, gpc, yielded, i, finalArray, colorAndSoundQueue,
                 lastBeep, frames>>

Next == DrainStep \/ DrainEnd \/ PresentFrame \/ PresentThrow \/ Wake \/ Settle

Spec == Init /\ [][Next]_vars

\* the event loop runs animateSort whenever it can take a step
FairSpec == Spec /\ WF_vars(Next)

(***************************************************************************)
(* execute: for each algorithm of its list, shuffle 0..n-1, sort the       *)
(* shuffled array, accent the sorted array; each phase is one awaited      *)
(* animateSort call.                                                       *)
(***************************************************************************)
\* [isEfficient, sortGen, ...] entries of the for-of list
Algorithms ==
  << [isEfficient |-> TRUE, sortGen |-> "mergeSort"],
     [isEfficient |-> FALSE, sortGen |-> "selectionSort"],
     [isEfficient |-> FALSE, sortGen |-> "insertionSort"] >>

\* (slowInterval, fastInterval, frameDuration) values of the form
ExecTimings == {<<2, 1, 3>>, <<1, 1, 0>>, <<10, 5, 35>>}

\* const n = isEfficient ? slowN : fastN
ElementCount(a) == IF Algorithms[a].isEfficient THEN slowN ELSE fastN

\* const interval = isEfficient ? slowInterval : fastInterval
SortInterval(a) == IF Algorithms[a].isEfficient THEN slowInterval ELSE fastInterval

\* the calls of this iteration, the latest marked as returned
Returned(log) == [log EXCEPT ![Len(log)].finished = TRUE, ![Len(log)].result = returned]

\* animateSort({ arr: a, interval: iv, frameDuration, generator: g,
\* yieldCompare: yc }) is entered; log holds the earlier calls
EnterAnimateSort(g, a, yc, iv, r, log) ==
  /\ generator' = g
  /\ arr' = a
  /\ yieldCompare' = yc
  /\ rnd' = r
  /\ interval' = iv
  /\ run' = Call(g, a, yc, r, GenLimit)
  /\ gpc' = "suspended"
  /\ pc' = "Draining"
  /\ i' = 0
  /\ finalArray' = a
  /\ callerArr' = a
  /\ colorAndSoundQueue' = <<>>
  /\ frames' = <<>>
  /\ draws' = 0
  /\ returned' = None
  /\ calls' = Append(log, [generator |-> g, passed |-> a, finished |-> FALSE,
                           result |-> <<>>])
  /\ UNCHANGED <<frameDuration, cap, yielded, lastDraw, lastBeep, slowN, fastN,
                 slowInterval, fastInterval>>

\* execute reads the form and enters the shuffle of the first algorithm;
\* the shuffle call passes no yieldCompare
InitExec ==
  /\ slowN \in 1..MaxExecN
  /\ fastN \in 1..MaxExecN
  /\ \E t \in ExecTimings :
       /\ slowInterval = t[1]
       /\ fastInterval = t[2]
       /\ frameDuration = t[3]
  /\ cap = MaxSteps
  /\ algo = 1
  /\ phase = "shuffle"
  /\ shuffledArray = <<>>
  /\ sortedArray = <<>>
  /\ generator = "shuffleGenerator"
  /\ arr = Ascending(slowN)
  /\ yieldCompare = FALSE
  /\ rnd \in Draws(slowN)
  /\ interval = slowInterval
  /\ run = Call(generator, arr, yieldCompare, rnd, GenLimit)
  /\ gpc = "suspended"
  /\ yielded = <<>>
  /\ pc = "Draining"
  /\ i = 0
  /\ finalArray = arr
  /\ callerArr = arr
  /\ colorAndSoundQueue = <<>>
  /\ lastDraw = None
  /\ lastBeep = None
  /\ frames = <<>>
  /\ draws = 0
  /\ returned = None
  /\ calls = << [generator |-> generator, passed |-> arr, finished |-> FALSE,
                 result |-> <<>>] >>

\* const shuffledArray = await animateSort(...); then await asleep(1000)
ShuffleReturns ==
  /\ phase = "shuffle"
  /\ pc = "Done"
  /\ shuffledArray' = returned
  /\ calls' = Returned(calls)
  /\ phase' = "pause"
  /\ pc' = "idle"
  /\ UNCHANGED <<inputs, callerArr, run, gpc, yielded, i, finalArray, colorAndSoundQueue,
                 lastDraw, lastBeep, frames, draws, returned, algo, slowN, fastN,
                 slowInterval, fastInterval, sortedArray>>

\* mutant: the sort is handed the array execute built, not the shuffled one
SortPhase_unshuffled ==
  /\ phase = "pause"
  /\ EnterAnimateSort(Algorithms[algo].sortGen, Ascending(ElementCount(algo)),
                      TRUE, SortInterval(algo), <<>>, calls)
  /\ phase' = "sort"
  /\ UNCHANGED <<algo, shuffledArray, sortedArray>>

\* the pause is over: animateSort({ arr: shuffledArray, generator: sortGen })
SortPhase ==
  /\ phase = "pause"
  /\ EnterAnimateSort(Algorithms[algo].sortGen, shuffledArray, TRUE,
                      SortInterval(algo), <<>>, calls)
  /\ phase' = "sort"
  /\ UNCHANGED <<algo, shuffledArray, sortedArray>>

\* const sortedArray = await animateSort(...); then
\* animateSort({ arr: sortedArray, generator: accentGenerator })
AccentPhase ==
  /\ phase = "sort"
  /\ pc = "Done"
  /\ sortedArray' = returned
  /\ EnterAnimateSort("accentGenerator", returned, TRUE, fastInterval, <<>>,
                      Returned(calls))
  /\ phase' = "accent"
  /\ UNCHANGED <<algo, shuffledArray>>

\* the accent call returns; then await asleep(2000)
AccentReturns ==
  /\ phase = "accent"
  /\ pc = "Done"
  /\ calls' = Returned(calls)
  /\ phase' = "rest"
  /\ pc' = "idle"
  /\ UNCHANGED <<inputs, callerArr, run, gpc, yielded, i, finalArray, colorAndSoundQueue,
                 lastDraw, lastBeep, frames, draws, returned, algo, slowN, fastN,
                 slowInterval, fastInterval, shuffledArray, sortedArray>>

\* the next iteration of the for-of loop: a fresh 0..n-1 is shuffled
NextAlgorithm ==
  /\ phase = "rest"
  /\ algo < Len(Algorithms)
  /\ algo' = algo + 1
  /\ \E r \in Draws(ElementCount(algo + 1)) :
       EnterAnimateSort("shuffleGenerator", Ascending(ElementCount(algo + 1)),
                        FALSE, slowInterval, r, <<>>)
  /\ phase' = "shuffle"
  /\ UNCHANGED <<shuffledArray, sortedArray>>

\* the list is exhausted: console.log('done')
ExecuteDone ==
  /\ phase = "rest"
  /\ algo = Len(Algorithms)
  /\ phase' = "finished"
  /\ UNCHANGED <<inputs, callerArr, run, gpc, yielded, pc, i, finalArray,
                 colorAndSoundQueue, lastDraw, lastBeep, frames, draws, returned,
                 algo, slowN, fastN, slowInterval, fastInterval, shuffledArray,
                 sortedArray, calls>>

\* an awaited animateSort call threw: execute's promise rejects
ExecuteRejects ==
  /\ phase \in {"shuffle", "sort", "accent"}
  /\ pc = "Threw"
  /\ phase' = "rejected"
  /\ pc' = "idle"
  /\ UNCHANGED <<inputs, callerArr, run, gpc, yielded, i, finalArray, colorAndSoundQueue,
                 lastDraw, lastBeep, frames, draws, returned, algo, slowN, fastN,
                 slowInterval, fastInterval, shuffledArray, sortedArray, calls>>

NextExec ==
  \/ DrainStep \/ DrainEnd \/ PresentFrame \/ PresentThrow \/ Wake \/ Settle
  \/ ShuffleReturns \/ SortPhase \/ AccentPhase \/ AccentReturns
  \/ NextAlgorithm \/ ExecuteDone \/ ExecuteRejects

SpecExec == InitExec /\ [][NextExec]_vars

(***************************************************************************)
(* Definitions used by the properties.                                     *)
(***************************************************************************)
\* a step with no compare highlight and no swap highlight (empty or absent)
BothEmpty(step) == step.compareIndexes = <<>> /\ step.swappedIndexes = <<>>

\* a step that only reports a comparison
CompareOnly(step) == step.compareIndexes # <<>> /\ step.swappedIndexes = <<>>

\* a step that reports a mutation
MutationStep(step) == step.swappedIndexes # <<>> /\ step.compareIndexes = <<>>

\* the generator of this call run on its own, and the same with the flag set
FullRun == Call(generator, arr, yieldCompare, rnd, GenLimit)

VerboseRun == Call(generator, arr, TRUE, rnd, GenLimit)

RECURSIVE SelectMutations(_)
SelectMutations(steps) ==
  IF steps = <<>> THEN <<>>
  ELSE (IF MutationStep(steps[1])
        THEN << <<steps[1].array, steps[1].swappedIndexes>> >> ELSE <<>>)
       \o SelectMutations(Tail(steps))

\* the step numbers of the presented frames, in presentation order
RECURSIVE Flat(_)
Flat(fs) == IF fs = <<>> THEN <<>> ELSE fs[1] \o Flat(Tail(fs))

\* the step numbers of the queued entries, head first
QueueSeqs == [k \in 1..Len(colorAndSoundQueue) |-> colorAndSoundQueue[k].seq]

Count(n) == [k \in 1..n |-> k]

Min(a, b) == IF a < b THEN a ELSE b

\* smallest integer k with k * interval >= frameDuration
IsCeil(k) == k * interval >= frameDuration /\ (k - 1) * interval < frameDuration

(***************************************************************************)
(* C1.  Every sort driver, run to exhaustion on a permutation of 0..N-1,   *)
(* N >= 1, leaves the array equal to 0..N-1 in ascending order.            *)
(* Violated: gnomeSort on a one-element array never returns and grows the  *)
(* array; bitonicSort leaves arrays whose length is no power of two        *)
(* unsorted and sorts descending when the flag it receives is false.       *)
(***************************************************************************)
C1_SortsAscending ==
  (generator \in SortDrivers /\ gpc # "suspended") => run.arr = Ascending(Len(arr))

(***************************************************************************)
(* C2.  Every driver terminates on every input of length N >= 1, for both *)
(* values of yieldCompare: no iteration of a generator ends in a loop that *)
(* never returns.  Violated by gnomeSort on a one-element array.           *)
(***************************************************************************)
C2_Terminates == gpc = "done" \/ ENABLED NextGen

(***************************************************************************)
(* C3.  When the step cap truncates the sequence, the array of the final   *)
(* highlight-free presentation, which animateSort returns, is the array    *)
(* the driver produces when run to exhaustion.  Violated: it is the array  *)
(* of the last enqueued step.                                              *)
(***************************************************************************)
C3_TruncatedSettles ==
  (pc = "Done" /\ i > cap /\ FullRun.done)
    => (returned = FullRun.arr /\ lastDraw.order = FullRun.arr)

(***************************************************************************)
(* C4.  The drain loop enqueues at most `cap` steps: the steps enqueued    *)
(* are the first steps the generator yields, in order, never more than     *)
(* cap of them, each queued with the data of that step; what is drawn is   *)
(* one of them; and when animateSort is done exactly the first             *)
(* min(cap, number of steps) steps have been presented, in order.  The     *)
(* steps are the presented ones, then those still queued; after a frame    *)
(* whose drawing threw, the steps shifted for that frame lie between.      *)
(***************************************************************************)
C4_CapBoundsQueue ==
  LET presented == Flat(frames)
      full == FullRun.steps
      dropped == Min(i, cap) - Len(presented) - Len(QueueSeqs)
  IN /\ Len(presented) + Len(QueueSeqs) <= cap
     /\ presented = Count(Len(presented))
     /\ dropped >= 0
     /\ pc # "Threw" => dropped = 0
     /\ \A k \in 1..Len(colorAndSoundQueue) :
          colorAndSoundQueue[k] =
            QueueEntry(full[Len(presented) + dropped + k],
                       Len(presented) + dropped + k)
     /\ pc = "Sleeping" => lastDraw.order = full[Len(Flat(frames))].array
     /\ pc = "Done" => Flat(frames) = Count(Min(Len(full), cap))

\* the cap cut the sequence and all cap steps were presented
C4_Witness == pc = "Done" /\ i > cap /\ Len(Flat(frames)) = cap /\ Len(frames) > 1

(***************************************************************************)
(* C5.  Whenever a driver yields at least one step, the array of its last  *)
(* step equals the in-place contents of the array when the driver is done. *)
(* Violated by lsdRadixSort with yieldCompare false, whose last step       *)
(* precedes the copy-back.                                                 *)
(***************************************************************************)
C5_LastStepIsFinal ==
  (gpc = "done" /\ yielded # <<>>) => yielded[Len(yielded)].array = run.arr

(***************************************************************************)
(* C6.  With yieldCompare false a sort driver yields no comparison-only    *)
(* step and still yields the mutation steps it yields with the flag set.   *)
(* Violated: most drivers yield nothing at all, lsdRadixSort yields its    *)
(* comparison steps, bitonicSort takes the flag as its direction.          *)
(***************************************************************************)
C6_QuietKeepsMutations ==
  (gpc = "done" /\ ~yieldCompare /\ generator \in SortDrivers)
    => /\ \A k \in 1..Len(yielded) : ~CompareOnly(yielded[k])
       /\ SelectMutations(yielded) = SelectMutations(VerboseRun.steps)

(***************************************************************************)
(* C7.  As claimed: in the step sequence of any driver a step with neither *)
(* highlight occurs only as the last step.  Violated by quickSort (one     *)
(* such step per recursive call), lsdRadixSort (one per cumulative-count   *)
(* update) and the two insertion sorts (placement with nothing shifted).   *)
(***************************************************************************)
C7_EmptyStepOnlyLast ==
  \A k \in 1..Len(yielded) :
    BothEmpty(yielded[k]) => (k = Len(yielded) /\ run.steps = <<>>)

EmptyStepDrivers ==
  {"quickSort", "lsdRadixSort", "insertionSort", "binaryInsertionSort"}

\* number of iterations of while (Math.floor(maxNum / exp) > 0), exp *= 10
RECURSIVE DigitPasses(_)
DigitPasses(maxNum) == IF maxNum > 0 THEN 1 + DigitPasses(maxNum \div 10) ELSE 0

\* a driver finished with its highlight-free step after other steps
C7_Witness ==
  /\ gpc = "done"
  /\ generator = "combSort"
  /\ Len(yielded) > 3
  /\ BothEmpty(yielded[Len(yielded)])

(***************************************************************************)
(* C8.  The steps-per-frame value is ceil(frameDuration / interval) and is *)
(* at least 1 for frameDuration >= 0 and interval > 0.  Violated at        *)
(* frameDuration = 0, where it is 0.                                       *)
(***************************************************************************)
C8_StepsPerFrameAtLeastOne == IsCeil(numStepsPerFrame) /\ numStepsPerFrame >= 1

(***************************************************************************)
(* C9.  Every animateSort call reaches Done: it never stops in another     *)
(* phase.  Violated with zero steps per frame, where the present loop      *)
(* removes nothing and the drawing call throws, and by a generator that    *)
(* never yields nor returns.                                               *)
(***************************************************************************)
C9_ReachesDone == pc = "Done" \/ ENABLED Next

(***************************************************************************)
(* C10.  Frames are presented in step order: every frame folds at least    *)
(* one step, the presented frames followed by the queue hold every         *)
(* enqueued step exactly once in the order the steps were yielded, and     *)
(* when animateSort is done every enqueued step is in exactly one frame.   *)
(* After a frame whose drawing threw, the presented frames hold the first  *)
(* steps in order and the queue holds the last ones in order; the steps    *)
(* shifted for the frame that threw are in neither.                        *)
(***************************************************************************)
C10_FramesInStepOrder ==
  /\ \A f \in 1..Len(frames) : frames[f] # <<>>
  /\ pc # "Threw" => Flat(frames) \o QueueSeqs = Count(Min(i, cap))
  /\ pc = "Threw" =>
       /\ Flat(frames) = Count(Len(Flat(frames)))
       /\ Len(Flat(frames)) + Len(QueueSeqs) <= Min(i, cap)
       /\ \A k \in 1..Len(QueueSeqs) :
            QueueSeqs[k] = Min(i, cap) - Len(QueueSeqs) + k
  /\ pc = "Done" => Flat(frames) = Count(Min(i, cap))

\* several frames of several steps were presented
C10_Witness == pc = "Done" /\ Len(frames) >= 2 /\ Len(frames[1]) >= 2


(***************************************************************************)
(* C11.  Within one animateSort call nothing is drawn and no tone is       *)
(* played before the drain loop has ended: once a draw or a tone has       *)
(* happened the call has left the drain loop, and it left it because the   *)
(* generator was exhausted or the step cap was reached.                    *)
(***************************************************************************)
C11_DrainBeforePresent ==
  /\ (draws > 0 \/ frames # <<>>)
       => (pc # "Draining" /\ (gpc = "done" \/ i > cap))
  /\ (draws = 0 /\ frames = <<>>) => (lastDraw = None /\ lastBeep = None)

C11_Witness == pc = "Sleeping" /\ draws = 1 /\ lastBeep.type = "square" /\ i >= 2

(***************************************************************************)
(* C12.  With K = numStepsPerFrame >= 1 and M enqueued steps the present   *)
(* loop builds ceil(M/K) frames; every frame but the last folds K steps    *)
(* and the last folds the M - K*(ceil(M/K) - 1) that remain; interval 10   *)
(* and frameDuration 35 give K = 4, and 10 steps give frames of 4, 4, 2.   *)
(***************************************************************************)
FrameSizes == [f \in 1..Len(frames) |-> Len(frames[f])]

CeilDiv(m, k) == (m + k - 1) \div k

C12_FrameCoalescing ==
  LET K == numStepsPerFrame
      M == Min(i, cap)
  IN /\ (interval = 10 /\ frameDuration = 35) => K = 4
     /\ K >= 1 =>
          /\ \A f \in 1..(Len(frames) - 1) : FrameSizes[f] = K
          /\ (frames # <<>> /\ colorAndSoundQueue # <<>>) =>
                FrameSizes[Len(frames)] = K
          /\ pc = "Done" =>
                /\ Len(frames) = CeilDiv(M, K)
                /\ M > 0 => FrameSizes[Len(frames)] = M - K * (CeilDiv(M, K) - 1)
                /\ (K = 4 /\ M = 10) => FrameSizes = <<4, 4, 2>>

C12_Witness ==
  /\ pc = "Done"
  /\ interval = 10 /\ frameDuration = 35
  /\ Min(i, cap) = 10
  /\ FrameSizes = <<4, 4, 2>>

(***************************************************************************)
(* C13.  The indexes handed to the tone of a frame are the distinct        *)
(* indexes of the first step folded into that frame: its compareIndexes    *)
(* when it has any, its swappedIndexes otherwise.  Later steps of the      *)
(* frame contribute nothing.                                               *)
(***************************************************************************)
SoundOf(step) ==
  IF step.compareIndexes # <<>> THEN step.compareIndexes ELSE step.swappedIndexes

\* the steps of the generator that the latest frame folds
LastFrameSteps ==
  LET f == frames[Len(frames)] IN [k \in 1..Len(f) |-> FullRun.steps[f[k]]]

C13_SoundFromFirstStep ==
  /\ frames = <<>> => lastBeep = None
  /\ frames # <<>> => lastBeep.indexes = Dedup(SoundOf(LastFrameSteps[1]))

C13_Witness ==
  /\ pc = "Sleeping"
  /\ Len(LastFrameSteps) >= 2
  /\ LastFrameSteps[1].compareIndexes # <<>>
  /\ lastBeep.indexes = LastFrameSteps[1].compareIndexes
  /\ \E x \in 1..Len(LastFrameSteps[2].swappedIndexes) :
       \A y \in 1..Len(lastBeep.indexes) :
         LastFrameSteps[2].swappedIndexes[x] # lastBeep.indexes[y]

(***************************************************************************)
(* C14.  The array drawn for a frame is the snapshot of the last step      *)
(* folded into it; after the last frame the drawn array is the array of    *)
(* the last enqueued step.                                                 *)
(***************************************************************************)
C14_DrawsLastStepOfFrame ==
  (pc \in {"Presenting", "Sleeping"} /\ frames # <<>>) =>
    /\ lastDraw.order = LastFrameSteps[Len(LastFrameSteps)].array
    /\ colorAndSoundQueue = <<>> =>
          lastDraw.order = FullRun.steps[Min(i, cap)].array

C14_Witness ==
  /\ pc = "Sleeping"
  /\ colorAndSoundQueue = <<>>
  /\ Len(frames) >= 2
  /\ Len(LastFrameSteps) >= 2
  /\ LastFrameSteps[1].array # LastFrameSteps[Len(LastFrameSteps)].array

(***************************************************************************)
(* C16.  For a driver that reports counters, the comparisons and swaps of  *)
(* its last step are the counts the same driver ends with on the same      *)
(* input when it runs without emitting comparison steps, and the counts    *)
(* its last step reports there: they do not depend on yieldCompare.        *)
(***************************************************************************)
ReportsCounters(step) == {"comparisons", "swaps"} \subseteq step.has

\* the same driver called with yieldCompare = false
QuietRun == Call(generator, arr, FALSE, rnd, GenLimit)

LastStep(steps) == steps[Len(steps)]

Counters(r) == <<r.comparisons, r.swaps>>

C16_CountersMatchReference ==
  (/\ gpc = "done"
   /\ generator \in SortDrivers
   /\ yielded # <<>>
   /\ ReportsCounters(LastStep(yielded))
   /\ QuietRun.done /\ VerboseRun.done)
    => /\ Counters(LastStep(yielded)) = Counters(QuietRun)
       /\ \A r \in {QuietRun, VerboseRun} :
            (r.steps # <<>> /\ ReportsCounters(LastStep(r.steps)))
              => Counters(LastStep(r.steps)) = Counters(LastStep(yielded))

(***************************************************************************)
(* C17.  For a driver that reports counters, comparisons and swaps are 0   *)
(* when an invocation starts and never decrease from one yielded step to   *)
(* a later one.                                                            *)
(***************************************************************************)
C17_CountersMonotone ==
  /\ Counters(Start(arr)) = <<0, 0>>
  /\ \A k \in 1..Len(yielded) :
       ReportsCounters(yielded[k]) =>
         /\ yielded[k].comparisons >= 0
         /\ yielded[k].swaps >= 0
         /\ \A j \in 1..(k - 1) :
              ReportsCounters(yielded[j]) =>
                /\ yielded[j].comparisons <= yielded[k].comparisons
                /\ yielded[j].swaps <= yielded[k].swaps

C17_Witness ==
  /\ gpc = "done"
  /\ generator = "quickSort"
  /\ Len(yielded) >= 6
  /\ yielded[1].comparisons < LastStep(yielded).comparisons
  /\ yielded[1].swaps < LastStep(yielded).swaps

(***************************************************************************)
(* C18.  cycleSort on an array of numbers that contains a value more than  *)
(* once returns, and leaves the array in ascending order with the values   *)
(* of the input, each as often as in the input; on [3,3,1,2] it leaves     *)
(* [1,2,3,3].                                                              *)
(***************************************************************************)
HasDuplicates(a) == \E j, k \in 1..Len(a) : j # k /\ a[j] = a[k]

NonDecreasing(a) == \A k \in 1..(Len(a) - 1) : a[k] <= a[k + 1]

Occurrences(a, v) == Cardinality({k \in 1..Len(a) : a[k] = v})

SameValues(a, b) ==
  /\ Len(a) = Len(b)
  /\ \A v \in 0..MaxVal : Occurrences(a, v) = Occurrences(b, v)
  /\ \A k \in 1..Len(a) : a[k] \in 0..MaxVal

C18_CycleSortDuplicates ==
  (generator = "cycleSort" /\ HasDuplicates(arr)) =>
    /\ gpc = "done" \/ ENABLED NextArr
    /\ run.done /\ ~run.diverges
    /\ NonDecreasing(run.arr)
    /\ SameValues(run.arr, arr)
    /\ arr = <<3, 3, 1, 2>> => run.arr = <<1, 2, 3, 3>>

C18_Witness ==
  /\ gpc = "done"
  /\ generator = "cycleSort"
  /\ arr = <<3, 3, 1, 2>>
  /\ run.arr = <<1, 2, 3, 3>>
  /\ yieldCompare /\ Len(yielded) > 4

(***************************************************************************)
(* C19.  With yieldCompare true, a merge of mergeSort that changes a       *)
(* position emits one consolidated step: its swappedIndexes are the        *)
(* positions whose value differs from the value before the merge, in       *)
(* ascending order, and swaps grows by their number.  A merge that changes *)
(* nothing emits no such step and leaves swaps as it was: the array and    *)
(* swaps change between two steps only at a consolidated step.             *)
(***************************************************************************)
DiffPositions(a, b) ==
  SelectSeq([k \in 1..Len(a) |-> k - 1], LAMBDA p : a[p + 1] # b[p + 1])

C19_MergeConsolidatedStep ==
  (generator = "mergeSort" /\ yieldCompare) =>
    /\ \A k \in 1..Len(yielded) :
         LET before == IF k = 1 THEN arr ELSE yielded[k - 1].array
             swapsBefore == IF k = 1 THEN 0 ELSE yielded[k - 1].swaps
             changed == DiffPositions(yielded[k].array, before)
         IN IF yielded[k].compareIndexes = <<>>
            THEN /\ changed # <<>>
                 /\ yielded[k].swappedIndexes = changed
                 /\ yielded[k].swaps = swapsBefore + Len(changed)
            ELSE /\ changed = <<>>
                 /\ yielded[k].swappedIndexes = <<>>
                 /\ yielded[k].swaps = swapsBefore
    /\ gpc = "done" =>
         run.arr = (IF yielded = <<>> THEN arr ELSE LastStep(yielded).array)

C19_Witness ==
  /\ gpc = "done"
  /\ generator = "mergeSort" /\ yieldCompare
  /\ HasDuplicates(arr)
  /\ \E k \in 1..Len(yielded) :
       /\ yielded[k].compareIndexes = <<>>
       /\ Len(yielded[k].swappedIndexes) = 3
       /\ Len(arr) = 4
  /\ \E k \in 2..Len(yielded) :
       /\ yielded[k - 1].compareIndexes # <<>>
       /\ yielded[k].compareIndexes # <<>>
       /\ yielded[k].compareIndexes[1] + 1 = yielded[k].compareIndexes[2]

(***************************************************************************)
(* C20.  Merging [3,1] and [2,4] (range values [3,1,2,4], left half at     *)
(* positions 0..1, right half at 2..3) yields the array [1,2,3,4] and a    *)
(* consolidated step whose swappedIndexes is [0,1,2,3].                    *)
(***************************************************************************)
MergeOfHalves == merge(Start(arr), 0, 1, 3, TRUE)

C20_MergeExample ==
  (generator = "mergeSort" /\ arr = <<3, 1, 2, 4>>) =>
    /\ MergeOfHalves.arr = <<1, 2, 3, 4>>
    /\ LastStep(MergeOfHalves.steps).swappedIndexes = <<0, 1, 2, 3>>

(***************************************************************************)
(* C20, amended.  merge expects sorted halves.  Applied to the range       *)
(* [3,1,2,4] it yields [2,3,1,4] and a consolidated step with              *)
(* swappedIndexes [0,1,2].  mergeSort on [3,1,2,4] first sorts the left    *)
(* half, then merges [1,3] and [2,4]: the array ends as [1,2,3,4] and the  *)
(* consolidated step of that merge has swappedIndexes [1,2].               *)
(***************************************************************************)
C20_MergeExampleAmended ==
  (generator = "mergeSort" /\ arr = <<3, 1, 2, 4>>) =>
    /\ MergeOfHalves.arr = <<2, 3, 1, 4>>
    /\ LastStep(MergeOfHalves.steps).swappedIndexes = <<0, 1, 2>>
    /\ run.arr = <<1, 2, 3, 4>>
    /\ (gpc = "done" /\ yieldCompare) =>
         /\ LastStep(yielded).array = <<1, 2, 3, 4>>
         /\ LastStep(yielded).swappedIndexes = <<1, 2>>
         /\ yielded[Len(yielded) - 1].array = <<1, 3, 2, 4>>

C20_Witness ==
  /\ gpc = "done"
  /\ generator = "mergeSort" /\ yieldCompare
  /\ arr = <<3, 1, 2, 4>>
  /\ LastStep(yielded).swappedIndexes = <<1, 2>>

(***************************************************************************)
(* C15.  In execute the phases of an algorithm run in the order shuffle,   *)
(* sort, accent, and a phase starts only after the phase before it has     *)
(* returned; the sort is handed the array the shuffle returned and the     *)
(* accent is handed the array the sort returned.                           *)
(***************************************************************************)
PhaseGenerators(a) == <<"shuffleGenerator", Algorithms[a].sortGen, "accentGenerator">>

C15_PhasesInOrder ==
  phase # "none" =>
    /\ Len(calls) \in 1..3
    /\ \A k \in 1..Len(calls) : calls[k].generator = PhaseGenerators(algo)[k]
    /\ \A k \in 1..(Len(calls) - 1) : calls[k].finished
    /\ calls[1].passed = Ascending(ElementCount(algo))
    /\ \A k \in 2..Len(calls) : calls[k].passed = calls[k - 1].result
    /\ pc \in {"Draining", "Presenting", "Sleeping", "Done", "Threw"} =>
         /\ ~calls[Len(calls)].finished
         /\ calls[Len(calls)].generator = generator
         /\ calls[Len(calls)].passed = arr
    /\ phase = "shuffle" => Len(calls) = 1
    /\ phase = "pause" => (Len(calls) = 1 /\ calls[1].finished)
    /\ phase = "sort" => Len(calls) = 2
    /\ phase = "accent" => Len(calls) = 3
    /\ phase \in {"rest", "finished"} => (Len(calls) = 3 /\ calls[3].finished)

C15_Witness ==
  /\ phase = "rest"
  /\ algo = 2
  /\ ElementCount(algo) = 3
  /\ calls[2].passed # Ascending(3)
  /\ calls[2].passed = calls[1].result
  /\ calls[3].passed = Ascending(3)

(***************************************************************************)
(* C21.  Called as animateSort calls every driver, with the array and the  *)
(* yieldCompare flag, bitonicSort uses the flag for step verbosity only:   *)
(* on an array whose length is a power of two the array ends ascending     *)
(* for both values of the flag, and with the flag false no comparison-only *)
(* step is yielded.                                                        *)
(***************************************************************************)
PowerOfTwo(n) == n \in {1, 2, 4, 8}

C21_BitonicContract ==
  (generator = "bitonicSort" /\ PowerOfTwo(Len(arr)) /\ gpc = "done") =>
    /\ run.arr = Ascending(Len(arr))
    /\ ~yieldCompare => \A k \in 1..Len(yielded) : ~CompareOnly(yielded[k])

(***************************************************************************)
(* C22.  accentGenerator on an array of length N yields N+1 steps: step k  *)
(* (0 <= k < N) carries swappedIndexes = [k] and no compareIndexes, the    *)
(* last step carries neither field, and every step's array is the input,   *)
(* which is left as it was; on [5,1,9] it yields 4 steps.                  *)
(***************************************************************************)
C22_AccentSteps ==
  (generator = "accentGenerator" /\ gpc = "done") =>
    /\ Len(yielded) = Len(arr) + 1
    /\ \A k \in 1..Len(arr) :
         /\ yielded[k].has = {"swappedIndexes"}
         /\ yielded[k].swappedIndexes = <<k - 1>>
    /\ LastStep(yielded).has = {}
    /\ \A k \in 1..Len(yielded) : yielded[k].array = arr
    /\ run.arr = arr
    /\ arr = <<5, 1, 9>> => Len(yielded) = 4

C22_Witness ==
  /\ gpc = "done"
  /\ generator = "accentGenerator"
  /\ arr = <<5, 1, 9>>
  /\ Len(yielded) = 4
  /\ yielded[3].swappedIndexes = <<2>>

(***************************************************************************)
(* C23.  shuffleGenerator on an array of length N yields N-1 steps, for    *)
(* i = N-1 down to 1.  The step of i carries compareIndexes = [i, j] with  *)
(* 0 <= j <= i and no swappedIndexes, and its array is the array before    *)
(* it with positions i and j exchanged; every snapshot and the final array *)
(* are permutations of the input, whatever j is drawn.                     *)
(***************************************************************************)
C23_ShuffleSteps ==
  generator = "shuffleGenerator" =>
    /\ \A k \in 1..Len(yielded) :
         LET before == IF k = 1 THEN arr ELSE yielded[k - 1].array
             at == Len(arr) - k
             j == yielded[k].compareIndexes[2]
         IN /\ yielded[k].has = {"compareIndexes"}
            /\ Len(yielded[k].compareIndexes) = 2
            /\ yielded[k].compareIndexes[1] = at
            /\ at >= 1
            /\ j \in 0..at
            /\ j = rnd[at]
            /\ yielded[k].array = Swap(before, at, j)
            /\ yielded[k].array \in Perms(Len(arr))
    /\ gpc = "done" =>
         /\ Len(yielded) = Len(arr) - 1
         /\ run.arr \in Perms(Len(arr))
         /\ run.arr = (IF yielded = <<>> THEN arr ELSE LastStep(yielded).array)

C23_Witness ==
  /\ gpc = "done"
  /\ generator = "shuffleGenerator"
  /\ Len(arr) = 4
  /\ Len(yielded) = 3
  /\ yielded[1].compareIndexes = <<3, 1>>
  /\ yielded[3].compareIndexes = <<1, 1>>
  /\ run.arr # arr

(***************************************************************************)
(* C24.  Every step yielded by a sort driver carries an array that is a    *)
(* permutation of the driver's input: no element is duplicated or missing  *)
(* in any snapshot.  Violated: gnomeSort on a one-element array yields     *)
(* snapshots of two positions, one of them undefined; insertionSort,       *)
(* shellSort, cycleSort and lsdRadixSort yield snapshots taken while a     *)
(* value is held aside, in which one element shows twice.                  *)
(***************************************************************************)
C24_SnapshotsArePermutations ==
  generator \in SortDrivers =>
    \A k \in 1..Len(yielded) : yielded[k].array \in Perms(Len(arr))

(***************************************************************************)
(* C25.  No sort driver touches a position outside 0..N-1: the array has   *)
(* the input's length N in every yielded snapshot and when the driver      *)
(* finishes, and no snapshot holds the value read from a missing position. *)
(***************************************************************************)
C25_StaysInRange ==
  generator \in SortDrivers =>
    /\ \A k \in 1..Len(yielded) :
         /\ Len(yielded[k].array) = Len(arr)
         /\ \A p \in 1..Len(yielded[k].array) : yielded[k].array[p] # Undef
    /\ gpc = "done" => Len(run.arr) = Len(arr)

(***************************************************************************)
(* C26.  With yieldCompare true quickSort yields one step with both index  *)
(* lists empty at the end of every invocation of quickSortRecursive, the   *)
(* invocations on empty and one-element ranges included.  Every invocation *)
(* on a range of two or more elements runs partition once and makes two    *)
(* recursive calls, and partition compares position high - 1 with the      *)
(* pivot exactly once, so with P such comparisons there are 2P + 1         *)
(* invocations and as many both-empty steps.  A both-empty step repeats    *)
(* the array and the counters of the step before it, never follows a       *)
(* comparison step directly, and the last step of the run is one.          *)
(***************************************************************************)
EmptySteps == {k \in 1..Len(yielded) : BothEmpty(yielded[k])}

\* the last loop iteration of each partition: j = high - 1
Partitions ==
  {k \in 1..Len(yielded) :
     /\ CompareOnly(yielded[k])
     /\ yielded[k].compareIndexes[1] + 1 = yielded[k].compareIndexes[2]}

PassLength == 3 * Len(arr) + 9

C27_RadixPassShape ==
  (generator = "lsdRadixSort" /\ yieldCompare) =>
    /\ \A k \in 1..Len(yielded) :
         LET o == ((k - 1) % PassLength) + 1
             N == Len(arr)
             step == yielded[k]
             before == IF k = 1 THEN 0 ELSE yielded[k - 1].swaps
         IN /\ step.comparisons = 0
            /\ IF k > DigitPasses(MaxOf(arr, 1)) * PassLength
               THEN BothEmpty(step) /\ step.swaps = before
               ELSE CASE o <= N ->
                           /\ step.compareIndexes = <<o - 1>>
                           /\ step.swappedIndexes = <<>>
                           /\ step.swaps = before
                      [] o > N /\ o <= N + 9 ->
                           BothEmpty(step) /\ step.swaps = before
                      [] o > N + 9 /\ o <= 2 * N + 9 ->
                           /\ step.compareIndexes = <<2 * N + 9 - o>>
                           /\ step.swappedIndexes = <<>>
                           /\ step.swaps = before
                      [] OTHER ->
                           /\ step.swappedIndexes = <<o - 2 * N - 10>>
                           /\ step.compareIndexes = <<>>
                           /\ step.swaps = before + 1
    /\ gpc = "done" =>
         /\ Len(yielded) = DigitPasses(MaxOf(arr, 1)) * PassLength + 1
         /\ run.comparisons = 0
         /\ run.swaps = DigitPasses(MaxOf(arr, 1)) * Len(arr)

C27_Witness ==
  /\ generator = "lsdRadixSort" /\ yieldCompare /\ gpc = "done"
  /\ arr = <<12, 3, 10>>
  /\ Len(yielded) = 37
  /\ yielded[18].swappedIndexes = <<2>> /\ yielded[18].swaps = 3
  /\ yielded[19].compareIndexes = <<0>>
  /\ LastStep(yielded).swaps = 6
  /\ run.arr = <<3, 10, 12>>

(***************************************************************************)
(* C28.  In insertionSort and binaryInsertionSort swaps grows by one for   *)
(* each right-shift of an element and by nothing else.  Both shift exactly *)
(* the elements of the sorted prefix that are greater than the key, so the *)
(* swaps value of the last step is the number of inversions of the input,  *)
(* repeated keys included; swaps never decreases from one step to the      *)
(* next, and in insertionSort with yieldCompare true, where every          *)
(* comparison step is followed by one shift, the swaps value of a step is  *)
(* the number of comparison steps before it.                               *)
(***************************************************************************)
Inversions(a) ==
  Cardinality({pq \in (1..Len(a)) \X (1..Len(a)) :
                 pq[1] < pq[2] /\ a[pq[1]] > a[pq[2]]})

C28_SwapsCountShifts ==
  generator \in {"insertionSort", "binaryInsertionSort"} =>
    /\ \A k \in 1..Len(yielded) :
         /\ k > 1 => yielded[k].swaps >= yielded[k - 1].swaps
         /\ (generator = "insertionSort" /\ yieldCompare) =>
              yielded[k].swaps =
                Cardinality({m \in 1..(k - 1) : yielded[m].compareIndexes # <<>>})
    /\ gpc = "done" =>
         /\ LastStep(yielded).swaps = Inversions(arr)
         /\ run.swaps = Inversions(arr)

C28_Witness ==
  /\ generator = "binaryInsertionSort" /\ gpc = "done"
  /\ arr = <<2, 1, 2, 0>>
  /\ LastStep(yielded).swaps = 4

(***************************************************************************)
(* C29.  bubbleSort and cocktailShakerSort stop after the first pass that  *)
(* exchanges nothing.  A pass of bubbleSort compares j = 0, 1, 2, ... so a *)
(* new pass starts where the compared position does not move up; the       *)
(* passes of cocktailShakerSort alternate in direction, so a new pass      *)
(* starts where the direction of the compared position turns.  Every pass  *)
(* that is followed by another pass contains an exchange step, the run     *)
(* ends with the step that has both lists empty, and on an ascending array *)
(* of N >= 2 elements the steps are the N-1 comparisons [0,1] .. [N-2,N-1] *)
(* and then that step.                                                     *)
(***************************************************************************)
\* the last comparison step before step k, 0 when there is none
PrevCompare(k) ==
  LET S == {m \in 1..(k - 1) : CompareOnly(yielded[m])}
  IN IF S = {} THEN 0 ELSE CHOOSE m \in S : \A n \in S : n <= m

\* the compared position of step k is above the one compared before
Upward(k) ==
  \/ PrevCompare(k) = 0
  \/ yielded[k].compareIndexes[1] > yielded[PrevCompare(k)].compareIndexes[1]

PassStart(k) ==
  /\ CompareOnly(yielded[k])
  /\ \/ PrevCompare(k) = 0
     \/ IF generator = "bubbleSort"
        THEN ~Upward(k)
        ELSE Upward(k) # Upward(PrevCompare(k))

C29_StopsAfterQuietPass ==
  (generator \in {"bubbleSort", "cocktailShakerSort"} /\ yieldCompare) =>
    /\ \A k \in 1..Len(yielded) :
         (PassStart(k) /\ PrevCompare(k) # 0) =>
            \E m \in 1..(k - 1) :
               /\ MutationStep(yielded[m])
               /\ \A n \in (m + 1)..(k - 1) : ~PassStart(n)
    /\ gpc = "done" =>
         /\ BothEmpty(LastStep(yielded))
         /\ \A k \in 1..(Len(yielded) - 1) : ~BothEmpty(yielded[k])
         /\ (arr = Ascending(Len(arr)) /\ Len(arr) >= 2) =>
              /\ Len(yielded) = Len(arr)
              /\ \A k \in 1..(Len(arr) - 1) :
                   /\ CompareOnly(yielded[k])
                   /\ yielded[k].compareIndexes = <<k - 1, k>>

\* a run whose second pass is quiet and ends it: two passes out of three
C29_Witness ==
  /\ generator = "bubbleSort" /\ yieldCompare /\ gpc = "done"
  /\ arr = <<1, 0, 2, 3>>
  /\ Cardinality({k \in 1..Len(yielded) : PassStart(k)}) = 2
  /\ Len(yielded) = 7


(***************************************************************************)
(* C30.  animateSort never changes the array object its caller passed: at  *)
(* every point of a call, and after it, the caller's array holds what it   *)
(* held when the call began, because the generator sorts the copy made by  *)
(* [...arr] and every step carries a copy of its own.                      *)
(***************************************************************************)
C30_CallerArrayUntouched == callerArr = arr

\* a finished call whose generator reordered its array
C30_Witness ==
  /\ pc = "Done"
  /\ generator \in SortDrivers
  /\ Len(arr) = 3
  /\ run.arr # arr
  /\ i > 2
  /\ callerArr = arr


(***************************************************************************)
(* C7, amended.  For every generator other than quickSort, lsdRadixSort,   *)
(* insertionSort and binaryInsertionSort, a step with neither highlight is *)
(* followed by no other step: it occurs at most once, as the last step.    *)
(* The four others yield such steps elsewhere, and exactly there:          *)
(*  - quickSort yields nothing with yieldCompare false; with it true it    *)
(*    yields one such step per invocation of quickSortRecursive, 2P + 1    *)
(*    for P partitions, the last of them as the last step;                 *)
(*  - lsdRadixSort yields them as the 9 cumulative-count steps of each     *)
(*    digit pass, which follow the N digit-extraction steps of the pass,   *)
(*    and, with yieldCompare true, as its closing step; its extraction,    *)
(*    placement and copy-back steps each carry one index;                  *)
(*  - insertionSort and binaryInsertionSort yield them as the placement    *)
(*    steps made while nothing has been shifted yet (swaps = 0), whose     *)
(*    swappedIndexes is still empty, and as the closing step.              *)
(***************************************************************************)
C7_EmptyStepOnlyLastAmended ==
  /\ generator \notin EmptyStepDrivers => C7_EmptyStepOnlyLast
  /\ generator = "quickSort" =>
       /\ ~yieldCompare => yielded = <<>>
       /\ (yieldCompare /\ gpc = "done") =>
            /\ Cardinality(EmptySteps) = 2 * Cardinality(Partitions) + 1
            /\ Len(yielded) \in EmptySteps
  /\ generator = "lsdRadixSort" =>
       LET N == Len(arr)
           L == IF yieldCompare THEN 3 * N + 9 ELSE 2 * N + 9
           total == DigitPasses(MaxOf(arr, 1)) * L
       IN /\ \A k \in 1..Len(yielded) :
               BothEmpty(yielded[k]) <=>
                 \/ k > total
                 \/ ((k - 1) % L) + 1 \in (N + 1)..(N + 9)
          /\ gpc = "done" =>
               Len(yielded) = total + (IF yieldCompare THEN 1 ELSE 0)
  /\ generator \in {"insertionSort", "binaryInsertionSort"} =>
       /\ \A k \in 1..Len(yielded) :
            BothEmpty(yielded[k]) <=>
              /\ yielded[k].compareIndexes = <<>>
              /\ \/ yielded[k].swaps = 0
                 \/ "swappedIndexes" \notin yielded[k].has
       /\ \A k \in 1..Len(yielded) :
            "swappedIndexes" \notin yielded[k].has =>
               (k = Len(yielded) /\ run.steps = <<>>)
       /\ gpc = "done" => "swappedIndexes" \notin LastStep(yielded).has

====
